---- MODULE Spec2Model ----
(***************************************************************************)
(* SiteSense security module: the scan orchestrator (runSecurityAudit,     *)
(* processBatch, formatSecurityResults in modules/security/index.js) and   *)
(* the engine client's process lifecycle (ZAPClient.startZAP, shutdown in  *)
(* modules/security/src/zap/zapClient.ts).                                 *)
(*                                                                         *)
(* One run of runSecurityAudit is a sequential async function; every await *)
(* is a point where the environment (the engine processes) may move.  The  *)
(* modelled inputs carry endpoints, options.batchSize and                  *)
(* options.excludeUrls; outputFile and skipCrawling are absent.            *)
(***************************************************************************)
EXTENDS Integers, Sequences, FiniteSets, TLC

\* ---------------------------------------------------------------- bounds
MaxEndpoints == 2      \* longest endpoints array drawn for a run
MaxSpawns == 2         \* engine processes one run may spawn
MaxLen == 4            \* longest URL list given to createBatches alone
MaxB == 3              \* largest batch size given to createBatches alone

\* ------------------------------------------------------ program constants
DefaultBatchSize == 5
maxAttempts == 30
MinBatchSize == 1
MaxAllowedBatchSize == 20
MaxAllowedEndpoints == 50

Undef == -1            \* an option that is not set (undefined)

StartTimeoutMsg == "ZAP failed to start within timeout period"
RequestFailedMsg == "Request failed"
NoError == "none"

\* ------------------------------------------------------------------ URLs
\* A URL is host, path segments, whether the pathname ends in "/", and the
\* fragment.  The pathname of a URL without segments is "/" itself.
Url(h, p, d, f) == [host |-> h, path |-> p, dir |-> d, hash |-> f]

RawUrls ==
    { Url("a", <<"p">>, FALSE, ""),
      Url("a", <<"p">>, TRUE, ""),
      Url("b", <<>>, TRUE, "top") }

ExcludePatterns == {"b"}

AlertLists == {<<>>, <<"alert">>}

normalizeUrl(url) ==
    [url EXCEPT !.hash = "",
                !.dir = IF url.path # <<>> /\ url.dir THEN FALSE ELSE url.dir]

RECURSIVE extractFrom(_, _, _)
extractFrom(endpoints, k, processedUrls_) ==
    IF k > Len(endpoints) THEN processedUrls_
    ELSE LET normalizedUrl == normalizeUrl(endpoints[k])
         IN  IF \E n \in 1..Len(processedUrls_) : processedUrls_[n] = normalizedUrl
             THEN extractFrom(endpoints, k + 1, processedUrls_)
             ELSE extractFrom(endpoints, k + 1, Append(processedUrls_, normalizedUrl))

extractUniqueUrls(endpoints) == extractFrom(endpoints, 1, <<>>)

\* String.prototype.includes on the URL text, at the granularity of the
\* URL's components: the pattern is the host or one of the path segments.
includes(url, excluded) ==
    \/ url.host = excluded
    \/ \E k \in 1..Len(url.path) : url.path[k] = excluded

isExcluded(url, excludeUrls) == \E excluded \in excludeUrls : includes(url, excluded)

\* Array.prototype.slice(from, to) with zero-based, end-exclusive indices.
Min(a, b) == IF a < b THEN a ELSE b
slice(s, from, to) == SubSeq(s, from + 1, Min(to, Len(s)))

RECURSIVE batchesFrom(_, _, _)
batchesFrom(urls, batchSize, k) ==
    IF k >= Len(urls) THEN <<>>
    ELSE <<slice(urls, k, k + batchSize)>> \o batchesFrom(urls, batchSize, k + batchSize)

\* createBatches with slice's second argument taken as a length.
RECURSIVE batchesFromLength(_, _, _)
batchesFromLength(urls, batchSize, k) ==
    IF k >= Len(urls) THEN <<>>
    ELSE <<slice(urls, k, batchSize)>> \o batchesFromLength(urls, batchSize, k + batchSize)

createBatchesSliceLength(urls, batchSize) == batchesFromLength(urls, batchSize, 0)

createBatches(urls, batchSize) == batchesFrom(urls, batchSize, 0)

\* ------------------------------------------------------------------ state
VARIABLES
    input,            \* the argument of runSecurityAudit
    pc,               \* control point of the run
    uniqueUrls,       \* runSecurityAudit: uniqueUrls
    batches,          \* runSecurityAudit: batches
    i,                \* runSecurityAudit: index of the batch loop (0-based)
    allResults,       \* runSecurityAudit: allResults
    processedUrls,    \* runSecurityAudit: processedUrls
    batchResults,     \* processBatch: batchResults
    urlIdx,           \* processBatch: position of the for-of loop (0-based)
    retTo,            \* where the pending startZAP call returns to
    attempts,         \* startZAP: attempts
    zapProcess,       \* ZAPClient.zapProcess: 0 is null, else an index of procs
    procs,            \* every engine process spawned by the client
    extUp,            \* an engine the client did not spawn listens on the port
    batchStatus,      \* per batch: pending, running, returned or raised
    shutdownCalls,    \* number of calls of zapClient.shutdown()
    lateRequests,     \* control-API requests issued after shutdown() began
    outcome,          \* how the run ended: none, returned or raised
    report,           \* <<>> or <<the report returned to the caller>>
    clientCreated     \* new ZAPClient(...) has been evaluated

\* The locals of the engine client's progress-wait loops, studied on their own.
VARIABLES
    waitLoop,             \* which loop runs: active, spider or passive
    fast,                 \* ZAPClient.fast
    progress,             \* waitFor...Completion: progress
    stuckCounter,         \* waitForActiveScanCompletion: stuckCounter
    lastProgress,         \* waitForActiveScanCompletion: lastProgress
    significantProgress,  \* waitForActiveScanCompletion: significantProgress
    polls,                \* number of status calls the loop has issued
    shape,                \* the statuses reported so far: none yet ("empty"),
                          \* each above the one before ("increasing"), or "other"
    exitRule              \* how the loop was left

pollVars == <<waitLoop, fast, progress, stuckCounter, lastProgress,
              significantProgress, polls, shape, exitRule>>

\* The locals of ZAPClient.getResults, studied on its own.
VARIABLES
    calls,            \* the engine calls getResults has issued, in order
    failed,           \* those of them that failed
    resAlerts,        \* getResults: alerts
    spiderUrls,       \* getResults: spiderUrls
    passiveRecords,   \* getResults: passiveRecords
    result            \* <<>> or <<the record getResults returned>>

resVars == <<calls, failed, resAlerts, spiderUrls, passiveRecords, result>>

\* The locals of ZAPClient.configureZAP, studied on its own.
VARIABLES
    configIdx,        \* number of settings whose setAdvancedConfig has returned
    attempted,        \* keys passed to setAdvancedConfig, in order
    genericIdx,       \* setGenericConfig: endpoints tried for the current key
    genericLog,       \* the generic calls issued: setting, endpoint, outcome
    warnings          \* number of "Config warning" lines logged

cfgVars == <<configIdx, attempted, genericIdx, genericLog, warnings>>

\* The scan of one batch of URLs (processBatch's loop with fullScan and
\* endpointOnlyScan), studied on its own.
VARIABLES
    scanIdx,          \* processBatch: number of URLs of the batch dealt with
    epIdx,            \* endpointOnlyScan: i, the offset of the current group
    accessing,        \* endpoints whose accessUrl call is in flight
    inFlight,         \* URLs whose active scan has started and not ended
    accessCount,      \* accessUrl calls issued, per URL
    spiderCount,      \* spider scans started, per URL
    activeCount,      \* active scans started, per URL
    scanResults       \* processBatch: batchResults

scanVars == <<scanIdx, epIdx, accessing, inFlight, accessCount, spiderCount,
              activeCount, scanResults>>

subVars == <<pollVars, resVars, cfgVars, scanVars>>

vars == <<input, pc, uniqueUrls, batches, i, allResults, processedUrls,
          batchResults, urlIdx, retTo, attempts, zapProcess, procs, extUp,
          batchStatus, shutdownCalls, lateRequests, outcome, report, clientCreated, subVars>>

\* The variables of runSecurityAudit and of the engine, apart from pc,
\* attempts and outcome, which the functions studied on their own use too.
mainVars == <<input, uniqueUrls, batches, i, allResults, processedUrls,
              batchResults, urlIdx, retTo, zapProcess, procs, extUp,
              batchStatus, shutdownCalls, lateRequests, report, clientCreated>>

PollLocalsIdle ==
    /\ waitLoop = "none"
    /\ progress = 0
    /\ stuckCounter = 0
    /\ lastProgress = 0
    /\ significantProgress = FALSE
    /\ polls = 0
    /\ shape = "empty"
    /\ exitRule = "none"

PollIdle == PollLocalsIdle /\ fast = TRUE

CfgIdle ==
    /\ configIdx = 0
    /\ attempted = <<>>
    /\ genericIdx = 0
    /\ genericLog = <<>>
    /\ warnings = 0

ResIdle ==
    /\ calls = <<>>
    /\ failed = {}
    /\ resAlerts = <<>>
    /\ spiderUrls = <<>>
    /\ passiveRecords = 0
    /\ result = <<>>

ScanIdle ==
    /\ scanIdx = 0
    /\ epIdx = 0
    /\ accessing = {}
    /\ inFlight = {}
    /\ accessCount = <<>>
    /\ spiderCount = <<>>
    /\ activeCount = <<>>
    /\ scanResults = <<>>

SubIdle == PollIdle /\ ResIdle /\ CfgIdle /\ ScanIdle

MainIdle ==
    /\ uniqueUrls = <<>>
    /\ batches = <<>>
    /\ i = 0
    /\ allResults = <<>>
    /\ processedUrls = 0
    /\ batchResults = <<>>
    /\ urlIdx = 0
    /\ retTo = "none"
    /\ zapProcess = 0
    /\ procs = <<>>
    /\ extUp = FALSE
    /\ batchStatus = <<>>
    /\ shutdownCalls = 0
    /\ lateRequests = 0
    /\ report = <<>>
    /\ clientCreated = FALSE

runVars == <<uniqueUrls, batches, i, allResults, processedUrls, batchResults, urlIdx>>
clientVars == <<retTo, attempts, zapProcess>>
envVars == <<procs, extUp>>
endVars == <<outcome, report>>

BatchSizes == {Undef, 0, 1, 2}

RECURSIVE SeqsUpTo(_, _)
SeqsUpTo(S, n) ==
    IF n = 0 THEN {<<>>}
    ELSE LET shorter == SeqsUpTo(S, n - 1)
         IN  shorter \cup {Append(s, x) : s \in {t \in shorter : Len(t) = n - 1}, x \in S}

Inputs ==
    [endpoints : SeqsUpTo(RawUrls, MaxEndpoints),
     batchSize : BatchSizes,
     excludeUrls : {{}} \cup {{p} : p \in ExcludePatterns}]

Init ==
    /\ input \in Inputs
    /\ pc = "validate"
    /\ uniqueUrls = <<>>
    /\ batches = <<>>
    /\ i = 0
    /\ allResults = <<>>
    /\ processedUrls = 0
    /\ batchResults = <<>>
    /\ urlIdx = 0
    /\ retTo = "none"
    /\ attempts = 0
    /\ zapProcess = 0
    /\ procs = <<>>
    /\ extUp \in BOOLEAN
    /\ batchStatus = <<>>
    /\ shutdownCalls = 0
    /\ lateRequests = 0
    /\ outcome = "none"
    /\ report = <<>>
    /\ clientCreated = FALSE
    /\ SubIdle

\* ------------------------------------------------------------ environment
\* The control API answers when some engine listens on the port.
isZAPRunning == extUp \/ \E p \in 1..Len(procs) : procs[p].state = "ready"

\* A spawned engine finishes booting; it can bind the port only when free.
ProcReady(p) ==
    /\ procs[p].state = "booting"
    /\ ~isZAPRunning
    /\ procs' = [procs EXCEPT ![p].state = "ready"]
    /\ UNCHANGED <<input, pc, runVars, clientVars, extUp, batchStatus,
                   shutdownCalls, lateRequests, endVars>>
    /\ UNCHANGED <<subVars, clientCreated>>

\* A spawned engine exits: a crash, a shutdown request or a signal.
ProcExit(p) ==
    /\ procs[p].state # "dead"
    /\ procs' = [procs EXCEPT ![p].state = "dead"]
    /\ UNCHANGED <<input, pc, runVars, clientVars, extUp, batchStatus,
                   shutdownCalls, lateRequests, endVars>>
    /\ UNCHANGED <<subVars, clientCreated>>

\* The engine the client did not spawn goes away.
ExtExit ==
    /\ extUp
    /\ extUp' = FALSE
    /\ UNCHANGED <<input, pc, runVars, clientVars, procs, batchStatus,
                   shutdownCalls, lateRequests, endVars>>
    /\ UNCHANGED <<subVars, clientCreated>>

\* n control-API requests are issued now.
Request(n) ==
    lateRequests' = IF shutdownCalls > 0 THEN lateRequests + n ELSE lateRequests

\* ---------------------------------------------------------- validateInput
\* Every input drawn here is an object whose endpoints are http(s) URL
\* strings and whose maxDepth, timeout and outputFile are absent; the checks
\* of validateInput that can fail on it are the endpoint count and batchSize.
batchSizeOk(batchSize) ==
    batchSize = Undef \/ (batchSize >= MinBatchSize /\ batchSize <= MaxAllowedBatchSize)

validateInput(in) ==
    /\ Len(in.endpoints) # 0
    /\ Len(in.endpoints) <= MaxAllowedEndpoints
    /\ batchSizeOk(in.batchSize)

\* options.batchSize || 5
effectiveBatchSize(in) ==
    IF in.batchSize = Undef \/ in.batchSize = 0 THEN DefaultBatchSize ELSE in.batchSize

ValidateAndGoOn ==
    /\ pc = "validate"
    /\ uniqueUrls' = extractUniqueUrls(input.endpoints)
    /\ clientCreated' = TRUE
    /\ batches' = createBatches(uniqueUrls', effectiveBatchSize(input))
    /\ batchStatus' = [b \in 1..Len(batches') |-> "pending"]
    /\ pc' = "loop"
    /\ UNCHANGED <<input, i, allResults, processedUrls, batchResults, urlIdx,
                   clientVars, envVars, shutdownCalls, lateRequests, endVars>>
    /\ UNCHANGED subVars

\* runSecurityAudit up to the batch loop; a validation error is rethrown.
Validate ==
    /\ pc = "validate"
    /\ IF validateInput(input)
       THEN /\ uniqueUrls' = extractUniqueUrls(input.endpoints)
            /\ clientCreated' = TRUE
            /\ batches' = createBatches(uniqueUrls', effectiveBatchSize(input))
            /\ batchStatus' = [b \in 1..Len(batches') |-> "pending"]
            /\ pc' = "loop"
            /\ UNCHANGED outcome
       ELSE /\ pc' = "done"
            /\ outcome' = "raised"
            /\ UNCHANGED <<uniqueUrls, batches, batchStatus, clientCreated>>
    /\ UNCHANGED <<input, i, allResults, processedUrls, batchResults, urlIdx,
                   clientVars, envVars, shutdownCalls, lateRequests, report>>
    /\ UNCHANGED subVars

\* --------------------------------------------------- ZAPClient.startZAP
\* The start of a startZAP call that returns to control point ret: the
\* liveness check, and the spawn when the engine does not answer.
startZAP(ret) ==
    /\ Request(1)
    /\ IF isZAPRunning
       THEN /\ pc' = ret
            /\ UNCHANGED <<retTo, attempts, zapProcess, procs>>
       ELSE /\ Len(procs) < MaxSpawns
            /\ retTo' = ret
            /\ procs' = Append(procs, [state |-> "booting", killed |-> FALSE])
            /\ zapProcess' = Len(procs) + 1
            /\ attempts' = 0
            /\ pc' = "startWait"

\* One record of processBatch's batchResults.
Succeeded(url, alerts) ==
    [scanUrl |-> url, success |-> TRUE, alerts |-> alerts, error |-> NoError]
Failed(url, message) ==
    [scanUrl |-> url, success |-> FALSE, alerts |-> <<>>, error |-> message]

batch == batches[i + 1]
url == batch[urlIdx + 1]

\* ScanCatch that leaves the for-of loop after the failed URL.
ScanCatchBreak(message) ==
    /\ batchResults' = Append(batchResults, Failed(url, message))
    /\ urlIdx' = Len(batch)
    /\ pc' = "urls"

\* processBatch's catch block for one URL, then the next URL.
ScanCatch(message) ==
    /\ batchResults' = Append(batchResults, Failed(url, message))
    /\ urlIdx' = urlIdx + 1
    /\ pc' = "urls"

\* BatchCatch that leaves the batch loop instead of continuing it.
BatchCatchBreak ==
    /\ batchStatus' = [batchStatus EXCEPT ![i + 1] = "raised"]
    /\ batchResults' = <<>>
    /\ urlIdx' = 0
    /\ i' = Len(batches)
    /\ pc' = "loop"

\* runSecurityAudit's catch block for one batch, then the next batch.
BatchCatch ==
    /\ batchStatus' = [batchStatus EXCEPT ![i + 1] = "raised"]
    /\ batchResults' = <<>>
    /\ urlIdx' = 0
    /\ i' = i + 1
    /\ pc' = "loop"

\* A poll of startZAP's wait loop finds the engine live: startZAP returns.
StartPollRunning ==
    /\ pc = "startWait"
    /\ isZAPRunning
    /\ pc' = retTo
    /\ retTo' = "none"
    /\ attempts' = 0
    /\ Request(1)
    /\ UNCHANGED <<input, runVars, zapProcess, envVars, batchStatus,
                   shutdownCalls, endVars>>
    /\ UNCHANGED <<subVars, clientCreated>>

\* StartPollRetry that goes on whatever the number of polls made.
StartPollRetryUnbounded ==
    /\ pc = "startWait"
    /\ ~isZAPRunning
    /\ attempts' = attempts + 1
    /\ Request(1)
    /\ UNCHANGED <<input, pc, runVars, retTo, zapProcess, envVars, batchStatus,
                   shutdownCalls, endVars>>
    /\ UNCHANGED <<subVars, clientCreated>>

\* A poll finds the engine down and polls are left.
StartPollRetry ==
    /\ pc = "startWait"
    /\ ~isZAPRunning
    /\ attempts + 1 < maxAttempts
    /\ attempts' = attempts + 1
    /\ Request(1)
    /\ UNCHANGED <<input, pc, runVars, retTo, zapProcess, envVars, batchStatus,
                   shutdownCalls, endVars>>
    /\ UNCHANGED <<subVars, clientCreated>>

\* The last poll finds the engine down: startZAP throws to its caller,
\* processBatch (which lets it through to the batch loop) or fullScan
\* (whose error processBatch turns into a failed outcome).
StartPollTimeout ==
    /\ pc = "startWait"
    /\ ~isZAPRunning
    /\ attempts + 1 >= maxAttempts
    /\ attempts' = 0
    /\ retTo' = "none"
    /\ Request(1)
    /\ IF retTo = "urls"
       THEN BatchCatch
       ELSE /\ ScanCatch(StartTimeoutMsg)
            /\ UNCHANGED <<batchStatus, i>>
    /\ UNCHANGED <<input, uniqueUrls, batches, allResults, processedUrls,
                   zapProcess, envVars, shutdownCalls, endVars>>
    /\ UNCHANGED <<subVars, clientCreated>>

\* ----------------------------------------------------------- processBatch
\* BatchStart whose processBatch call is not awaited: the loop goes on to
\* the next batch while the batch before is still being processed.
BatchStartNoAwait ==
    /\ pc \in {"loop", "urls"}
    /\ LET n == IF pc = "loop" THEN i ELSE i + 1
       IN  /\ n < Len(batches)
           /\ i' = n
           /\ batchStatus' = [batchStatus EXCEPT ![n + 1] = "running"]
    /\ batchResults' = <<>>
    /\ urlIdx' = 0
    /\ startZAP("urls")
    /\ UNCHANGED <<input, uniqueUrls, batches, allResults, processedUrls,
                   extUp, shutdownCalls, endVars>>
    /\ UNCHANGED <<subVars, clientCreated>>

\* The batch loop calls processBatch, which starts with startZAP.
BatchStart ==
    /\ pc = "loop"
    /\ i < Len(batches)
    /\ batchStatus' = [batchStatus EXCEPT ![i + 1] = "running"]
    /\ batchResults' = <<>>
    /\ urlIdx' = 0
    /\ startZAP("urls")
    /\ UNCHANGED <<input, uniqueUrls, batches, i, allResults, processedUrls,
                   extUp, shutdownCalls, endVars>>
    /\ UNCHANGED <<subVars, clientCreated>>

\* The for-of loop skips an excluded URL.
SkipExcluded ==
    /\ pc = "urls"
    /\ urlIdx < Len(batch)
    /\ isExcluded(url, input.excludeUrls)
    /\ urlIdx' = urlIdx + 1
    /\ UNCHANGED <<input, pc, uniqueUrls, batches, i, allResults, processedUrls,
                   batchResults, clientVars, envVars, batchStatus, shutdownCalls,
                   lateRequests, endVars>>
    /\ UNCHANGED <<subVars, clientCreated>>

\* The for-of loop calls fullScan, which starts with startZAP.
ScanStart ==
    /\ pc = "urls"
    /\ urlIdx < Len(batch)
    /\ ~isExcluded(url, input.excludeUrls)
    /\ startZAP("scan")
    /\ UNCHANGED <<input, runVars, extUp, batchStatus, shutdownCalls, endVars>>
    /\ UNCHANGED <<subVars, clientCreated>>

\* fullScan after startZAP (configure, access, spider, active scan, results)
\* returns: the outcome of the URL is a success.
ScanSucceed ==
    /\ pc = "scan"
    /\ isZAPRunning
    /\ \E alerts \in AlertLists :
           batchResults' = Append(batchResults, Succeeded(url, alerts))
    /\ urlIdx' = urlIdx + 1
    /\ pc' = "urls"
    /\ Request(1)
    /\ UNCHANGED <<input, uniqueUrls, batches, i, allResults, processedUrls,
                   clientVars, envVars, batchStatus, shutdownCalls, endVars>>
    /\ UNCHANGED <<subVars, clientCreated>>

\* fullScan after startZAP throws (a spider or active-scan request fails).
ScanFail ==
    /\ pc = "scan"
    /\ ScanCatch(RequestFailedMsg)
    /\ Request(1)
    /\ UNCHANGED <<input, uniqueUrls, batches, i, allResults, processedUrls,
                   clientVars, envVars, batchStatus, shutdownCalls, endVars>>
    /\ UNCHANGED <<subVars, clientCreated>>

\* processBatch returns; the batch loop appends its results.
BatchReturn ==
    /\ pc = "urls"
    /\ urlIdx = Len(batch)
    /\ allResults' = allResults \o batchResults
    /\ processedUrls' = processedUrls + Len(batch)
    /\ batchStatus' = [batchStatus EXCEPT ![i + 1] = "returned"]
    /\ batchResults' = <<>>
    /\ urlIdx' = 0
    /\ i' = i + 1
    /\ pc' = "loop"
    /\ UNCHANGED <<input, uniqueUrls, batches, clientVars,
                   envVars, shutdownCalls, lateRequests, endVars>>
    /\ UNCHANGED <<subVars, clientCreated>>

\* --------------------------------------------------- ZAPClient.shutdown
\* ChildProcess.kill: the signal is delivered to a live process, which sets
\* its killed flag; on an exited process nothing happens.
kill(p) ==
    procs' = IF procs[p].state # "dead"
             THEN [procs EXCEPT ![p].killed = TRUE]
             ELSE procs

\* ShutdownRequest with the finally block on the per-batch try: shutdown()
\* is called after every batch.
ShutdownRequestEveryBatch ==
    /\ pc = "loop"
    /\ shutdownCalls < i
    /\ shutdownCalls' = shutdownCalls + 1
    /\ pc' = IF i < Len(batches) THEN "loop"
             ELSE IF isZAPRunning THEN "grace" ELSE "shutdownDone"
    /\ UNCHANGED <<input, runVars, clientVars, envVars, batchStatus,
                   lateRequests, endVars>>
    /\ UNCHANGED <<subVars, clientCreated>>

\* The finally block calls shutdown(): the graceful request.  When the
\* request fails, the catch block of shutdown() ends the call.
ShutdownRequest ==
    /\ pc = "loop"
    /\ i >= Len(batches)
    /\ shutdownCalls' = shutdownCalls + 1
    /\ pc' = IF isZAPRunning THEN "grace" ELSE "shutdownDone"
    /\ UNCHANGED <<input, runVars, clientVars, envVars, batchStatus,
                   lateRequests, endVars>>
    /\ UNCHANGED <<subVars, clientCreated>>

\* ShutdownTerm that signals whichever engine there is.
ShutdownTermAnyEngine ==
    /\ pc = "grace"
    /\ IF zapProcess # 0 /\ ~procs[zapProcess].killed
       THEN kill(zapProcess) /\ pc' = "termWait" /\ UNCHANGED extUp
       ELSE pc' = "shutdownDone" /\ extUp' = FALSE /\ UNCHANGED procs
    /\ UNCHANGED <<input, runVars, clientVars, batchStatus,
                   shutdownCalls, lateRequests, endVars>>
    /\ UNCHANGED <<subVars, clientCreated>>

\* After the grace period: SIGTERM to the process the client holds.
ShutdownTerm ==
    /\ pc = "grace"
    /\ IF zapProcess # 0 /\ ~procs[zapProcess].killed
       THEN kill(zapProcess) /\ pc' = "termWait"
       ELSE pc' = "shutdownDone" /\ UNCHANGED procs
    /\ UNCHANGED <<input, runVars, clientVars, extUp, batchStatus,
                   shutdownCalls, lateRequests, endVars>>
    /\ UNCHANGED <<subVars, clientCreated>>

\* Two seconds later: SIGKILL when the killed flag is still unset.
ShutdownKill ==
    /\ pc = "termWait"
    /\ IF ~procs[zapProcess].killed
       THEN kill(zapProcess)
       ELSE UNCHANGED procs
    /\ pc' = "shutdownDone"
    /\ UNCHANGED <<input, runVars, clientVars, extUp, batchStatus,
                   shutdownCalls, lateRequests, endVars>>
    /\ UNCHANGED <<subVars, clientCreated>>

\* -------------------------------------------------- formatSecurityResults
RECURSIVE filterCount(_, _)
filterCount(rawResults, wanted) ==
    IF rawResults = <<>> THEN 0
    ELSE (IF Head(rawResults).success = wanted THEN 1 ELSE 0)
         + filterCount(Tail(rawResults), wanted)

scanMetadata(rawResults) ==
    [totalScans |-> Len(rawResults),
     successfulScans |-> filterCount(rawResults, TRUE),
     failedScans |-> filterCount(rawResults, FALSE)]

\* getZAPVersion asks a new client for the version, then for the stats.
formatSecurityResults(rawResults) ==
    [metadata |-> scanMetadata(rawResults),
     zapVersion |-> IF isZAPRunning THEN "engine" ELSE "Unknown"]

\* After shutdown() the results are formatted and returned.
Format ==
    /\ pc = "shutdownDone"
    /\ report' = <<formatSecurityResults(allResults)>>
    /\ Request(IF isZAPRunning THEN 2 ELSE 1)
    /\ outcome' = "returned"
    /\ pc' = "done"
    /\ UNCHANGED <<input, runVars, clientVars, envVars, batchStatus, shutdownCalls>>
    /\ UNCHANGED <<subVars, clientCreated>>

Next ==
    \/ Validate
    \/ BatchStart
    \/ StartPollRunning
    \/ StartPollRetry
    \/ StartPollTimeout
    \/ SkipExcluded
    \/ ScanStart
    \/ ScanSucceed
    \/ ScanFail
    \/ BatchReturn
    \/ ShutdownRequest
    \/ ShutdownTerm
    \/ ShutdownKill
    \/ Format
    \/ \E p \in 1..Len(procs) : ProcReady(p)
    \/ \E p \in 1..Len(procs) : ProcExit(p)
    \/ ExtExit

Spec == Init /\ [][Next]_vars

\* ------------------------------------------- createBatches on its own
\* createBatches applied to every list of distinct URLs (numbered) of up to
\* MaxLen entries and every batch size in 1..MaxB.
IsInjective(s) == \A a, b \in 1..Len(s) : s[a] = s[b] => a = b

UrlLists == {s \in SeqsUpTo(1..MaxLen, MaxLen) : IsInjective(s)}

InitBatches ==
    /\ input \in [urls : UrlLists, batchSize : 1..MaxB]
    /\ pc = "createBatches"
    /\ uniqueUrls = <<>>
    /\ batches = <<>>
    /\ i = 0
    /\ allResults = <<>>
    /\ processedUrls = 0
    /\ batchResults = <<>>
    /\ urlIdx = 0
    /\ retTo = "none"
    /\ attempts = 0
    /\ zapProcess = 0
    /\ procs = <<>>
    /\ extUp = FALSE
    /\ batchStatus = <<>>
    /\ shutdownCalls = 0
    /\ lateRequests = 0
    /\ outcome = "none"
    /\ report = <<>>
    /\ clientCreated = FALSE
    /\ SubIdle

ApplyCreateBatches ==
    /\ pc = "createBatches"
    /\ uniqueUrls' = input.urls
    /\ batches' = createBatches(input.urls, input.batchSize)
    /\ pc' = "batched"
    /\ UNCHANGED <<input, i, allResults, processedUrls, batchResults, urlIdx,
                   clientVars, envVars, batchStatus, shutdownCalls, lateRequests,
                   endVars>>
    /\ UNCHANGED <<subVars, clientCreated>>

NextBatches == ApplyCreateBatches

SpecBatches == InitBatches /\ [][NextBatches]_vars

\* --------------------------------------- ZAPClient progress-wait loops
\* The progress-wait loops of the engine client (zapClient.ts): activeScan
\* with waitForActiveScanCompletion, waitForSpiderCompletion and
\* waitForPassiveScanCompletion.  One action is one pass through a loop body
\* together with the evaluation of the loop condition that follows it.

stuckThreshold == 50
minProgressThreshold == 30
passiveMaxAttempts == 30

activeMaxAttempts(f) == IF f THEN 300 ELSE 600
spiderMaxAttempts(f) == IF f THEN 120 ELSE 180

\* The status strings the engine may report; "NaN" stands for any text that
\* parseInt cannot read.
StatusTexts == {"0", "10", "45", "100", "NaN"}

\* parseInt(status) || 0
parseStatus(text) ==
    CASE text = "0" -> 0
      [] text = "10" -> 10
      [] text = "45" -> 45
      [] text = "100" -> 100
      [] OTHER -> 0

\* The passive scanner's backlog, as reported by recordsToScan.
RecordsTexts == {"0", "3", "NaN"}

parseRecords(text) ==
    CASE text = "3" -> 3
      [] OTHER -> 0

Loops == {"active", "spider", "passive"}

InitPoll ==
    /\ input = <<>>
    /\ MainIdle
    /\ waitLoop \in Loops
    /\ fast \in BOOLEAN
    /\ pc = IF waitLoop = "active" THEN "activeScan" ELSE "poll"
    /\ attempts = 0
    /\ outcome = "none"
    /\ progress = 0
    /\ stuckCounter = 0
    /\ lastProgress = 0
    /\ significantProgress = FALSE
    /\ polls = 0
    /\ shape = "empty"
    /\ exitRule = "none"
    /\ ResIdle
    /\ CfgIdle
    /\ ScanIdle

\* activeScan: the request that starts the scan.  A failed request is logged
\* and rethrown; otherwise the wait loop is entered with fresh locals.
ActiveScanStart ==
    /\ pc = "activeScan"
    /\ \E ok \in BOOLEAN :
         IF ok
         THEN /\ pc' = "poll"
              /\ outcome' = outcome
         ELSE /\ pc' = "done"
              /\ outcome' = "raised"
    /\ UNCHANGED <<input, mainVars, attempts, pollVars, resVars, cfgVars, scanVars>>

shapeAfter(sh, last, p) ==
    IF sh = "empty" THEN "increasing"
    ELSE IF sh = "increasing" /\ p > last THEN "increasing"
    ELSE "other"

\* significantProgress follows the latest status only.
significantAfterLatest(sig, p) == p >= minProgressThreshold

significantAfter(sig, p) == sig \/ p >= minProgressThreshold

stuckAfterNoReset(sc, same) == sc + 1

stuckAfter(sc, same) == IF same THEN sc + 1 ELSE 0

stuckLowIgnoringProgress(sc, sig) == sc >= stuckThreshold

stuckLow(sc, sig) == sc >= stuckThreshold /\ ~sig

stuckHigh(sc, sig) == sc >= stuckThreshold * 2 /\ sig

attemptsAfterErrorSame(a) == a

attemptsAfterError(a) == a + 1

\* The rule by which the loop condition ends the loop, "none" if it goes on.
loopExit(p, a, max) ==
    IF p >= 100 THEN "rule1"
    ELSE IF a >= max THEN "rule4"
    ELSE "none"

\* waitForActiveScanCompletion: a pass whose status call answered.
ActivePollReported ==
    /\ pc = "poll"
    /\ waitLoop = "active"
    /\ \E text \in StatusTexts :
         LET p == parseStatus(text)
             sig == significantAfter(significantProgress, p)
             same == p = lastProgress
             sc == stuckAfter(stuckCounter, same)
             broke == same /\ (stuckLow(sc, sig) \/ stuckHigh(sc, sig))
             a == IF broke THEN attempts ELSE attempts + 1
             exit == IF broke
                     THEN IF stuckLow(sc, sig) THEN "rule2" ELSE "rule3"
                     ELSE loopExit(p, a, activeMaxAttempts(fast))
         IN /\ progress' = p
            /\ significantProgress' = sig
            /\ stuckCounter' = sc
            /\ lastProgress' = p
            /\ attempts' = a
            /\ exitRule' = exit
            /\ pc' = IF exit = "none" THEN "poll" ELSE "waited"
            /\ shape' = shapeAfter(shape, progress, p)
    /\ polls' = polls + 1
    /\ UNCHANGED <<input, mainVars, resVars, cfgVars, scanVars, outcome, waitLoop, fast>>

\* waitForActiveScanCompletion: a pass whose status call failed.
ActivePollFailed ==
    /\ pc = "poll"
    /\ waitLoop = "active"
    /\ attempts' = attemptsAfterError(attempts)
    /\ exitRule' = loopExit(progress, attempts', activeMaxAttempts(fast))
    /\ pc' = IF exitRule' = "none" THEN "poll" ELSE "waited"
    /\ polls' = polls + 1
    /\ UNCHANGED <<input, mainVars, resVars, cfgVars, scanVars, outcome, waitLoop, fast, progress,
                   stuckCounter, lastProgress, significantProgress, shape>>

\* activeScan: the wait is over, the scan handle is returned.
ActiveScanReturn ==
    /\ pc = "waited"
    /\ waitLoop = "active"
    /\ pc' = "done"
    /\ outcome' = "returned"
    /\ UNCHANGED <<input, mainVars, attempts, pollVars, resVars, cfgVars, scanVars>>

\* waitForSpiderCompletion: a pass whose status call answered.
SpiderPollReported ==
    /\ pc = "poll"
    /\ waitLoop = "spider"
    /\ \E text \in StatusTexts :
         /\ progress' = parseStatus(text)
         /\ shape' = shapeAfter(shape, progress, progress')
    /\ attempts' = attempts + 1
    /\ exitRule' = loopExit(progress', attempts', spiderMaxAttempts(fast))
    /\ pc' = IF exitRule' = "none" THEN "poll" ELSE "waited"
    /\ polls' = polls + 1
    /\ UNCHANGED <<input, mainVars, resVars, cfgVars, scanVars, outcome, waitLoop, fast, stuckCounter,
                   lastProgress, significantProgress>>

\* waitForSpiderCompletion: a pass whose status call failed.
SpiderPollFailed ==
    /\ pc = "poll"
    /\ waitLoop = "spider"
    /\ attempts' = attemptsAfterError(attempts)
    /\ exitRule' = loopExit(progress, attempts', spiderMaxAttempts(fast))
    /\ pc' = IF exitRule' = "none" THEN "poll" ELSE "waited"
    /\ polls' = polls + 1
    /\ UNCHANGED <<input, mainVars, resVars, cfgVars, scanVars, outcome, waitLoop, fast, progress,
                   stuckCounter, lastProgress, significantProgress, shape>>

\* waitForPassiveScanCompletion: a pass whose backlog call answered.  An
\* empty backlog breaks out of the loop.
PassivePollReported ==
    /\ pc = "poll"
    /\ waitLoop = "passive"
    /\ \E text \in RecordsTexts :
         IF parseRecords(text) = 0
         THEN /\ attempts' = attempts
              /\ exitRule' = "settled"
         ELSE /\ attempts' = attempts + 1
              /\ exitRule' = loopExit(0, attempts', passiveMaxAttempts)
    /\ pc' = IF exitRule' = "none" THEN "poll" ELSE "waited"
    /\ polls' = polls + 1
    /\ UNCHANGED <<input, mainVars, resVars, cfgVars, scanVars, outcome, waitLoop, fast, progress,
                   stuckCounter, lastProgress, significantProgress, shape>>

\* waitForPassiveScanCompletion: a pass whose backlog call failed.
PassivePollFailed ==
    /\ pc = "poll"
    /\ waitLoop = "passive"
    /\ attempts' = attemptsAfterError(attempts)
    /\ exitRule' = loopExit(0, attempts', passiveMaxAttempts)
    /\ pc' = IF exitRule' = "none" THEN "poll" ELSE "waited"
    /\ polls' = polls + 1
    /\ UNCHANGED <<input, mainVars, resVars, cfgVars, scanVars, outcome, waitLoop, fast, progress,
                   stuckCounter, lastProgress, significantProgress, shape>>

\* waitForSpiderCompletion and waitForPassiveScanCompletion return.
WaitReturn ==
    /\ pc = "waited"
    /\ waitLoop \in {"spider", "passive"}
    /\ pc' = "done"
    /\ outcome' = "returned"
    /\ UNCHANGED <<input, mainVars, attempts, pollVars, resVars, cfgVars, scanVars>>

NextPoll ==
    \/ ActiveScanStart
    \/ ActivePollReported
    \/ ActivePollFailed
    \/ ActiveScanReturn
    \/ SpiderPollReported
    \/ SpiderPollFailed
    \/ PassivePollReported
    \/ PassivePollFailed
    \/ WaitReturn

SpecPoll == InitPoll /\ [][NextPoll]_vars

\* ------------------------------------------------- ZAPClient.getResults
\* One action is one engine call of getResults with its outcome.

SpiderUrlLists == {<<>>, <<"found">>}

AlertCallOrder == <<"bulk", "summary", "riskHigh", "riskMedium", "riskLow">>

InitResults ==
    /\ input = <<>>
    /\ MainIdle
    /\ PollIdle
    /\ pc = "bulk"
    /\ attempts = 0
    /\ outcome = "none"
    /\ calls = <<>>
    /\ failed = {}
    /\ resAlerts = <<>>
    /\ spiderUrls = <<>>
    /\ passiveRecords = 0
    /\ result = <<>>
    /\ CfgIdle
    /\ ScanIdle

ResultsIdleRest == UNCHANGED <<input, mainVars, attempts, pollVars, cfgVars, scanVars>>

\* An answer without an alerts field reads as the empty list (|| []).
ResultsBulkReportedFallback ==
    /\ pc = "bulk"
    /\ calls' = Append(calls, "bulk")
    /\ \E list \in AlertLists :
         /\ resAlerts' = list
         /\ pc' = IF list = <<>> THEN "summary" ELSE "spiderResults"
    /\ UNCHANGED <<failed, spiderUrls, passiveRecords, result, outcome>>
    /\ ResultsIdleRest

\* GET /JSON/core/view/alerts/ answered.
ResultsBulkReported ==
    /\ pc = "bulk"
    /\ calls' = Append(calls, "bulk")
    /\ \E list \in AlertLists : resAlerts' = list
    /\ pc' = "spiderResults"
    /\ UNCHANGED <<failed, spiderUrls, passiveRecords, result, outcome>>
    /\ ResultsIdleRest

\* GET /JSON/core/view/alerts/ failed: the summary call is next.
ResultsBulkFailed ==
    /\ pc = "bulk"
    /\ calls' = Append(calls, "bulk")
    /\ failed' = failed \cup {"bulk"}
    /\ pc' = "summary"
    /\ UNCHANGED <<resAlerts, spiderUrls, passiveRecords, result, outcome>>
    /\ ResultsIdleRest

\* GET /JSON/core/view/alertsSummary/ answered.
ResultsSummaryReported ==
    /\ pc = "summary"
    /\ calls' = Append(calls, "summary")
    /\ \E list \in AlertLists : resAlerts' = list
    /\ pc' = "spiderResults"
    /\ UNCHANGED <<failed, spiderUrls, passiveRecords, result, outcome>>
    /\ ResultsIdleRest

\* GET /JSON/core/view/alertsSummary/ failed: the per-risk calls are next.
ResultsSummaryFailed ==
    /\ pc = "summary"
    /\ calls' = Append(calls, "summary")
    /\ failed' = failed \cup {"summary"}
    /\ pc' = "riskHigh"
    /\ UNCHANGED <<resAlerts, spiderUrls, passiveRecords, result, outcome>>
    /\ ResultsIdleRest

afterRisk(level) ==
    CASE level = "riskHigh" -> "riskMedium"
      [] level = "riskMedium" -> "riskLow"
      [] OTHER -> "spiderResults"

\* getAlertsByRisk answered; the three lists are concatenated in call order.
ResultsRiskReported ==
    /\ pc \in {"riskHigh", "riskMedium", "riskLow"}
    /\ calls' = Append(calls, pc)
    /\ \E list \in AlertLists : resAlerts' = resAlerts \o list
    /\ pc' = afterRisk(pc)
    /\ UNCHANGED <<failed, spiderUrls, passiveRecords, result, outcome>>
    /\ ResultsIdleRest

\* getAlertsByRisk failed: it returns the empty list, it never throws.
ResultsRiskFailed ==
    /\ pc \in {"riskHigh", "riskMedium", "riskLow"}
    /\ calls' = Append(calls, pc)
    /\ failed' = failed \cup {pc}
    /\ pc' = afterRisk(pc)
    /\ UNCHANGED <<resAlerts, spiderUrls, passiveRecords, result, outcome>>
    /\ ResultsIdleRest

\* GET /JSON/spider/view/results/ answered.
ResultsSpiderReported ==
    /\ pc = "spiderResults"
    /\ calls' = Append(calls, "spiderResults")
    /\ spiderUrls' \in SpiderUrlLists
    /\ pc' = "passiveRecords"
    /\ UNCHANGED <<failed, resAlerts, passiveRecords, result, outcome>>
    /\ ResultsIdleRest

ResultsSpiderFailedRaise ==
    /\ pc = "spiderResults"
    /\ calls' = Append(calls, "spiderResults")
    /\ failed' = failed \cup {"spiderResults"}
    /\ pc' = "done"
    /\ outcome' = "raised"
    /\ UNCHANGED <<resAlerts, spiderUrls, passiveRecords, result>>
    /\ ResultsIdleRest

\* GET /JSON/spider/view/results/ failed: the empty list is used.
ResultsSpiderFailed ==
    /\ pc = "spiderResults"
    /\ calls' = Append(calls, "spiderResults")
    /\ failed' = failed \cup {"spiderResults"}
    /\ spiderUrls' = <<>>
    /\ pc' = "passiveRecords"
    /\ UNCHANGED <<resAlerts, passiveRecords, result, outcome>>
    /\ ResultsIdleRest

\* GET /JSON/pscan/view/recordsToScan/ answered.
ResultsPassiveReported ==
    /\ pc = "passiveRecords"
    /\ calls' = Append(calls, "passiveRecords")
    /\ \E text \in RecordsTexts : passiveRecords' = parseRecords(text)
    /\ pc' = "return"
    /\ UNCHANGED <<failed, resAlerts, spiderUrls, result, outcome>>
    /\ ResultsIdleRest

\* GET /JSON/pscan/view/recordsToScan/ failed: the count is 0.
ResultsPassiveFailed ==
    /\ pc = "passiveRecords"
    /\ calls' = Append(calls, "passiveRecords")
    /\ failed' = failed \cup {"passiveRecords"}
    /\ passiveRecords' = 0
    /\ pc' = "return"
    /\ UNCHANGED <<resAlerts, spiderUrls, result, outcome>>
    /\ ResultsIdleRest

\* The record getResults returns.
ResultsReturn ==
    /\ pc = "return"
    /\ result' = <<[alerts |-> resAlerts,
                    discoveredUrls |-> spiderUrls,
                    passiveRecords |-> passiveRecords,
                    scanTimestamp |-> "now"]>>
    /\ pc' = "done"
    /\ outcome' = "returned"
    /\ UNCHANGED <<calls, failed, resAlerts, spiderUrls, passiveRecords>>
    /\ ResultsIdleRest

NextResults ==
    \/ ResultsBulkReported
    \/ ResultsBulkFailed
    \/ ResultsSummaryReported
    \/ ResultsSummaryFailed
    \/ ResultsRiskReported
    \/ ResultsRiskFailed
    \/ ResultsSpiderReported
    \/ ResultsSpiderFailed
    \/ ResultsPassiveReported
    \/ ResultsPassiveFailed
    \/ ResultsReturn

SpecResults == InitResults /\ [][NextResults]_vars

\* ------------------------------------------------ ZAPClient.configureZAP
\* One action is one engine call of setAdvancedConfig or setGenericConfig
\* with its outcome.

Config(k, v) == [key |-> k, value |-> v]

performanceConfigs ==
    << Config("spider.threadCount", "10"),
       Config("ascan.threadPerHost", "8"),
       Config("ascan.hostPerScan", "4"),
       Config("spider.requestwaittime", "50"),
       Config("spider.processingWaitTime", "100"),
       Config("connection.timeoutInSecs", "15"),
       Config("network.connection.timeoutInSecs", "10"),
       Config("network.httpState.maxConnections", "15"),
       Config("network.httpState.maxConnectionsPerHost", "8") >>

fastConfigs ==
    << Config("scanner.strength", "LOW"),
       Config("scanner.attackmodestrength", "LOW"),
       Config("spider.maxduration", "2"),
       Config("spider.maxdepth", "2"),
       Config("spider.maxchildren", "15"),
       Config("ascan.maxrulesperscan", "15"),
       Config("ascan.maxscandurationinmins", "3"),
       Config("ascan.delayInMs", "1000"),
       Config("ascan.attackstrength", "LOW"),
       Config("ascan.threadPerHost", "2"),
       Config("ascan.hostPerScan", "1"),
       Config("ascan.skipgzipbomb", "true"),
       Config("ascan.allowattackonstart", "true"),
       Config("ascan.promptInAttackMode", "false"),
       Config("ascan.promptToClearFinishedScans", "false") >>

normalConfigs ==
    << Config("scanner.strength", "MEDIUM"),
       Config("scanner.attackmodestrength", "MEDIUM"),
       Config("spider.maxduration", "5"),
       Config("spider.maxdepth", "3"),
       Config("spider.maxchildren", "25"),
       Config("ascan.maxrulesperscan", "25"),
       Config("ascan.maxscandurationinmins", "8"),
       Config("ascan.delayInMs", "800"),
       Config("ascan.attackstrength", "LOW"),
       Config("ascan.threadPerHost", "3"),
       Config("ascan.hostPerScan", "1"),
       Config("ascan.allowattackonstart", "true"),
       Config("ascan.promptInAttackMode", "false"),
       Config("ascan.promptToClearFinishedScans", "false") >>

\* The two loops of configureZAP run over this list.
configList(f) == performanceConfigs \o (IF f THEN fastConfigs ELSE normalConfigs)

\* The keys of setAdvancedConfig's configMappings.
configMappings ==
    { "spider.threadCount", "spider.maxduration", "spider.maxdepth",
      "spider.maxchildren", "spider.requestwaittime",
      "spider.processingWaitTime",
      "ascan.threadPerHost", "ascan.hostPerScan", "ascan.maxrulesperscan",
      "ascan.maxscandurationinmins", "ascan.delayInMs",
      "ascan.attackstrength", "ascan.allowattackonstart",
      "connection.timeoutInSecs", "network.connection.timeoutInSecs",
      "network.httpState.maxConnections",
      "network.httpState.maxConnectionsPerHost" }

\* setGenericConfig's endpoints.
genericEndpoints ==
    << "/JSON/core/action/setOptionProxyChainName/",
       "/JSON/core/action/setOptionDefaultUserAgent/",
       "/JSON/core/action/setOptionTimeoutInSecs/" >>

InitConfig ==
    /\ input = <<>>
    /\ MainIdle
    /\ PollLocalsIdle
    /\ ResIdle
    /\ fast \in BOOLEAN
    /\ pc = "configure"
    /\ attempts = 0
    /\ outcome = "none"
    /\ configIdx = 0
    /\ attempted = <<>>
    /\ genericIdx = 0
    /\ genericLog = <<>>
    /\ warnings = 0
    /\ ScanIdle

ConfigIdleRest == UNCHANGED <<input, mainVars, attempts, pollVars, resVars, scanVars>>

config == configList(fast)[configIdx + 1]

\* setAdvancedConfig for a mapped key whose engine call answered.
ConfigMappedSet ==
    /\ pc = "configure"
    /\ configIdx < Len(configList(fast))
    /\ config.key \in configMappings
    /\ attempted' = Append(attempted, config.key)
    /\ configIdx' = configIdx + 1
    /\ UNCHANGED <<pc, outcome, genericIdx, genericLog, warnings>>
    /\ ConfigIdleRest

ConfigMappedFailedRethrow ==
    /\ pc = "configure"
    /\ configIdx < Len(configList(fast))
    /\ config.key \in configMappings
    /\ attempted' = Append(attempted, config.key)
    /\ warnings' = warnings + 1
    /\ pc' = "done"
    /\ outcome' = "raised"
    /\ UNCHANGED <<configIdx, genericIdx, genericLog>>
    /\ ConfigIdleRest

\* setAdvancedConfig for a mapped key whose engine call failed: a warning.
ConfigMappedFailed ==
    /\ pc = "configure"
    /\ configIdx < Len(configList(fast))
    /\ config.key \in configMappings
    /\ attempted' = Append(attempted, config.key)
    /\ warnings' = warnings + 1
    /\ configIdx' = configIdx + 1
    /\ UNCHANGED <<pc, outcome, genericIdx, genericLog>>
    /\ ConfigIdleRest

\* setAdvancedConfig for an unmapped key: setGenericConfig is entered.
ConfigUnmapped ==
    /\ pc = "configure"
    /\ configIdx < Len(configList(fast))
    /\ config.key \notin configMappings
    /\ attempted' = Append(attempted, config.key)
    /\ genericIdx' = 0
    /\ pc' = "generic"
    /\ UNCHANGED <<outcome, configIdx, genericLog, warnings>>
    /\ ConfigIdleRest

GenericCall(ok) ==
    [setting |-> configIdx + 1, endpoint |-> genericEndpoints[genericIdx + 1],
     ok |-> ok]

\* setGenericConfig: the call answered, setGenericConfig returns.
GenericSet ==
    /\ pc = "generic"
    /\ genericLog' = Append(genericLog, GenericCall(TRUE))
    /\ genericIdx' = 0
    /\ pc' = "configure"
    /\ configIdx' = configIdx + 1
    /\ UNCHANGED <<outcome, attempted, warnings>>
    /\ ConfigIdleRest

\* setGenericConfig: the call failed, the next endpoint is tried; after the
\* last one setGenericConfig returns without a word.
GenericFailed ==
    /\ pc = "generic"
    /\ genericLog' = Append(genericLog, GenericCall(FALSE))
    /\ IF genericIdx + 1 = Len(genericEndpoints)
       THEN /\ pc' = "configure"
            /\ configIdx' = configIdx + 1
            /\ genericIdx' = 0
       ELSE /\ genericIdx' = genericIdx + 1
            /\ UNCHANGED <<pc, configIdx>>
    /\ UNCHANGED <<outcome, attempted, warnings>>
    /\ ConfigIdleRest

\* configureZAP: both loops are over.
ConfigReturn ==
    /\ pc = "configure"
    /\ configIdx = Len(configList(fast))
    /\ pc' = "done"
    /\ outcome' = "returned"
    /\ UNCHANGED cfgVars
    /\ ConfigIdleRest

NextConfig ==
    \/ ConfigMappedSet
    \/ ConfigMappedFailed
    \/ ConfigUnmapped
    \/ GenericSet
    \/ GenericFailed
    \/ ConfigReturn

SpecConfig == InitConfig /\ [][NextConfig]_vars

\* ------------------------------------------- validateInput on its own
\* validateInput applied to JavaScript values of every type.  A value is a
\* record with a type tag t; a number carries n when it is an integer and
\* has the tag "fraction" otherwise, a string carries s, a boolean carries
\* s = "true" or "false", an array carries its items.

Js(t, n, s, items) == [t |-> t, n |-> n, s |-> s, items |-> items]

undefined == Js("undefined", 0, "", <<>>)

JsNull == Js("null", 0, "", <<>>)

JsInt(n) == Js("integer", n, "", <<>>)

JsFraction == Js("fraction", 0, "5.5", <<>>)

JsStr(s) == Js("string", 0, s, <<>>)

JsBool(b) == Js("boolean", 0, IF b THEN "true" ELSE "false", <<>>)

JsArray(items) == Js("array", 0, "", items)

\* typeof v
typeOf(v) ==
    CASE v.t \in {"integer", "fraction"} -> "number"
      [] v.t \in {"null", "array", "object"} -> "object"
      [] OTHER -> v.t

\* v as a condition: !v is the negation of this.
truthy(v) ==
    CASE v.t \in {"undefined", "null"} -> FALSE
      [] v.t = "integer" -> v.n # 0
      [] v.t = "string" -> v.s # ""
      [] v.t = "boolean" -> v.s = "true"
      [] OTHER -> TRUE

\* The endpoint strings of the model and what new URL(...) makes of them:
\* the protocol, or "TypeError" when the text does not parse.
EndpointStrings == {"http://a/p", "https://b/", "ftp://c/x", "not a url"}

protocolOf(s) ==
    CASE s = "http://a/p" -> "http:"
      [] s = "https://b/" -> "https:"
      [] s = "ftp://c/x" -> "ftp:"
      [] OTHER -> "TypeError"

isValidUrl(s) == protocolOf(s) \in {"http:", "https:"}

\* input.endpoints, input.outputFile, input.options: undefined on a value
\* without that property.
propEndpoints(v) == IF v.t = "object" THEN v.endpoints ELSE undefined
propOutputFile(v) == IF v.t = "object" THEN v.outputFile ELSE undefined
propOptions(v) == IF v.t = "object" THEN v.options ELSE undefined

\* const { maxDepth, timeout, batchSize, excludeUrls } = input.options
optMaxDepth(o) == IF o.t = "object" THEN o.maxDepth ELSE undefined
optTimeout(o) == IF o.t = "object" THEN o.timeout ELSE undefined
optBatchSize(o) == IF o.t = "object" THEN o.batchSize ELSE undefined
optExcludeUrls(o) == IF o.t = "object" THEN o.excludeUrls ELSE undefined

MinMaxDepth == 1
MaxMaxDepth == 10
MinTimeout == 10000
MaxTimeout == 1800000

\* x !== undefined && (!Number.isInteger(x) || x < lo || x > hi)
outOfRange(x, lo, hi) ==
    x.t # "undefined" /\ (x.t # "integer" \/ x.n < lo \/ x.n > hi)

\* The message of the error validateInput throws, NoError when it returns.
validationError(in) ==
    LET eps == propEndpoints(in)
        o == propOptions(in)
    IN  CASE ~truthy(in) \/ typeOf(in) # "object" ->
               "Input must be an object"
          [] ~truthy(eps) \/ eps.t # "array" ->
               "Input must contain an endpoints array"
          [] Len(eps.items) = 0 ->
               "At least one endpoint is required"
          [] Len(eps.items) > MaxAllowedEndpoints ->
               "Maximum 50 endpoints allowed per security audit"
          [] \E k \in 1..Len(eps.items) : typeOf(eps.items[k]) # "string" ->
               "Invalid endpoint: must be a string"
          [] \E k \in 1..Len(eps.items) : ~isValidUrl(eps.items[k].s) ->
               "Invalid URL"
          [] truthy(propOutputFile(in)) /\ typeOf(propOutputFile(in)) # "string" ->
               "outputFile must be a string"
          [] truthy(o) /\ typeOf(o) # "object" ->
               "options must be an object"
          [] truthy(o) /\ outOfRange(optMaxDepth(o), MinMaxDepth, MaxMaxDepth) ->
               "maxDepth must be an integer between 1 and 10"
          [] truthy(o) /\ outOfRange(optTimeout(o), MinTimeout, MaxTimeout) ->
               "timeout must be an integer between 10000 and 1800000"
          [] truthy(o) /\ outOfRange(optBatchSize(o), MinBatchSize, MaxAllowedBatchSize) ->
               "batchSize must be an integer between 1 and 20"
          [] truthy(o) /\ optExcludeUrls(o).t \notin {"undefined", "array"} ->
               "excludeUrls must be an array of strings"
          [] OTHER -> NoError

Repeat(x, n) == [k \in 1..n |-> x]

EndpointArrays ==
    { JsArray(<<JsStr("http://a/p")>>),
      JsArray(<<JsStr("http://a/p"), JsStr("https://b/")>>),
      JsArray(Repeat(JsStr("http://a/p"), MaxAllowedEndpoints)),
      JsArray(Repeat(JsStr("http://a/p"), MaxAllowedEndpoints + 1)),
      JsArray(<<>>),
      JsArray(<<JsStr("http://a/p"), JsStr("ftp://c/x")>>),
      JsArray(<<JsStr("not a url")>>),
      JsArray(<<JsInt(7)>>),
      JsStr("http://a/p"),
      undefined }

OptionObjects ==
    [ t : {"object"},
      maxDepth : {undefined, JsInt(MinMaxDepth), JsInt(MaxMaxDepth),
                  JsInt(MinMaxDepth - 1), JsInt(MaxMaxDepth + 1), JsFraction,
                  JsStr("5")},
      timeout : {undefined, JsInt(MinTimeout), JsInt(MaxTimeout),
                 JsInt(MinTimeout - 1), JsInt(MaxTimeout + 1)},
      batchSize : {undefined, JsInt(MinBatchSize), JsInt(MaxAllowedBatchSize),
                   JsInt(MinBatchSize - 1), JsInt(MaxAllowedBatchSize + 1)},
      passiveScanOnly : {undefined, JsBool(TRUE), JsStr("yes")},
      skipCrawling : {undefined, JsBool(FALSE), JsInt(1)},
      excludeUrls : {undefined, JsArray(<<JsStr("b")>>), JsArray(<<JsInt(7)>>),
                     JsStr("b")},
      endpoints : {undefined, JsArray(<<JsStr("http://a/p")>>),
                   JsArray(<<JsInt(7)>>)} ]

InputObject(eps, out, o) ==
    [t |-> "object", endpoints |-> eps, outputFile |-> out, options |-> o]

\* The calls of validateInput the model makes: every options object on a
\* good endpoint list, every endpoint list and outputFile without options or
\* with options of the wrong type, and inputs that are no object.
JsInputs ==
    {InputObject(JsArray(<<JsStr("http://a/p")>>), undefined, o) : o \in OptionObjects}
    \cup {InputObject(eps, out, o) :
            eps \in EndpointArrays,
            out \in {undefined, JsStr("out.json"), JsInt(7)},
            o \in {undefined, JsStr("fast")}}
    \cup {undefined, JsNull, JsStr("input"), JsInt(3)}

InitValidate ==
    /\ input \in JsInputs
    /\ MainIdle
    /\ SubIdle
    /\ pc = "validateInput"
    /\ attempts = 0
    /\ outcome = "none"

\* The call validateInput(input) and how it ends.
ApplyValidateInput ==
    /\ pc = "validateInput"
    /\ pc' = "validated"
    /\ outcome' = IF validationError(input) = NoError THEN "returned" ELSE "raised"
    /\ UNCHANGED <<input, mainVars, attempts, subVars>>

NextValidate == ApplyValidateInput

SpecValidate == InitValidate /\ [][NextValidate]_vars

\* ----------------------------- processBatch, fullScan, endpointOnlyScan
\* The loop of processBatch over the URLs of one batch, with the engine
\* answering its liveness check: startZAP and configureZAP then change
\* nothing, and every other engine call may fail.  One action is one engine
\* operation or one step of a loop.

MaxScanUrls == 2
MaxScanEndpoints == 6

accessBatchSize == 5
maxActiveScans == 3

\* The unique target URLs a batch is made of.
ScanTargets ==
    { Url("a", <<"p">>, FALSE, ""),
      Url("b", <<>>, TRUE, ""),
      Url("c", <<"q">>, FALSE, "") }

\* options.endpoints is a prefix of this list.
EndpointPool ==
    << Url("a", <<"p">>, FALSE, ""),
       Url("b", <<>>, TRUE, ""),
       Url("c", <<"q">>, FALSE, ""),
       Url("a", <<"x">>, FALSE, ""),
       Url("c", <<"b">>, FALSE, ""),
       Url("a", <<"y">>, FALSE, ""),
       Url("c", <<"z">>, FALSE, ""),
       Url("a", <<"z">>, FALSE, "") >>

ScanUniverse == ScanTargets \cup {EndpointPool[k] : k \in 1..Len(EndpointPool)}

ScanInputs ==
    [ urls : {s \in SeqsUpTo(ScanTargets, MaxScanUrls) : s # <<>> /\ IsInjective(s)},
      excludeUrls : {{}} \cup {{p} : p \in ExcludePatterns},
      passiveScanOnly : BOOLEAN,
      skipCrawling : BOOLEAN,
      endpoints : {SubSeq(EndpointPool, 1, n) :
                     n \in 0..Min(MaxScanEndpoints, Len(EndpointPool))} ]

InitScan ==
    /\ input \in ScanInputs
    /\ MainIdle
    /\ PollIdle
    /\ ResIdle
    /\ CfgIdle
    /\ pc = "scanUrl"
    /\ attempts = 0
    /\ outcome = "none"
    /\ scanIdx = 0
    /\ epIdx = 0
    /\ accessing = {}
    /\ inFlight = {}
    /\ accessCount = [u \in ScanUniverse |-> 0]
    /\ spiderCount = [u \in ScanUniverse |-> 0]
    /\ activeCount = [u \in ScanUniverse |-> 0]
    /\ scanResults = <<>>

ScanIdleRest == UNCHANGED <<input, mainVars, attempts, pollVars, resVars, cfgVars>>

scanTarget == input.urls[scanIdx + 1]

\* One more call for each URL of the set.
counted(count, urls) ==
    [u \in DOMAIN count |-> IF u \in urls THEN count[u] + 1 ELSE count[u]]

\* processBatch: the URL matches an exclude pattern, continue.
ScanSkipExcluded ==
    /\ pc = "scanUrl"
    /\ scanIdx < Len(input.urls)
    /\ isExcluded(scanTarget, input.excludeUrls)
    /\ scanIdx' = scanIdx + 1
    /\ UNCHANGED <<pc, outcome, epIdx, accessing, inFlight, accessCount,
                   spiderCount, activeCount, scanResults>>
    /\ ScanIdleRest

\* fullScan hands over to endpointOnlyScan under this condition.
endpointOnly(options) == options.skipCrawling /\ Len(options.endpoints) > 0

\* processBatch calls fullScan, which goes on to crawl the URL.
ScanFull ==
    /\ pc = "scanUrl"
    /\ scanIdx < Len(input.urls)
    /\ ~isExcluded(scanTarget, input.excludeUrls)
    /\ ~endpointOnly(input)
    /\ pc' = "access"
    /\ UNCHANGED <<outcome, scanVars>>
    /\ ScanIdleRest

\* processBatch calls fullScan, which returns endpointOnlyScan's result.
ScanEndpointOnly ==
    /\ pc = "scanUrl"
    /\ scanIdx < Len(input.urls)
    /\ ~isExcluded(scanTarget, input.excludeUrls)
    /\ endpointOnly(input)
    /\ pc' = "epAccess"
    /\ epIdx' = 0
    /\ UNCHANGED <<outcome, scanIdx, accessing, inFlight, accessCount,
                   spiderCount, activeCount, scanResults>>
    /\ ScanIdleRest

\* processBatch: the error of fullScan is caught and a failure recorded.
scanFailed ==
    /\ scanResults' = Append(scanResults, [scanUrl |-> scanTarget, success |-> FALSE])
    /\ scanIdx' = scanIdx + 1
    /\ pc' = "scanUrl"

\* fullScan: accessUrl(url); its failure is only a warning.
FullAccessUrl ==
    /\ pc = "access"
    /\ accessCount' = counted(accessCount, {scanTarget})
    /\ pc' = "spider"
    /\ UNCHANGED <<outcome, scanIdx, epIdx, accessing, inFlight, spiderCount,
                   activeCount, scanResults>>
    /\ ScanIdleRest

\* fullScan: spiderScan(url), which rethrows the failure of its calls.
FullSpiderScan ==
    /\ pc = "spider"
    /\ spiderCount' = counted(spiderCount, {scanTarget})
    /\ \E ok \in BOOLEAN :
         IF ok
         THEN /\ pc' = "active"
              /\ UNCHANGED <<scanIdx, scanResults>>
         ELSE scanFailed
    /\ UNCHANGED <<outcome, epIdx, accessing, inFlight, accessCount, activeCount>>
    /\ ScanIdleRest

\* fullScan: activeScan(url) sends its start request, whatever the options.
FullActiveStart ==
    /\ pc = "active"
    /\ activeCount' = counted(activeCount, {scanTarget})
    /\ \E ok \in BOOLEAN :
         IF ok
         THEN /\ inFlight' = {scanTarget}
              /\ pc' = "activeWait"
              /\ UNCHANGED <<scanIdx, scanResults>>
         ELSE /\ scanFailed
              /\ UNCHANGED inFlight
    /\ UNCHANGED <<outcome, epIdx, accessing, accessCount, spiderCount>>
    /\ ScanIdleRest

\* fullScan: activeScan's wait loop is over.
FullActiveDone ==
    /\ pc = "activeWait"
    /\ inFlight' = {}
    /\ pc' = "collect"
    /\ UNCHANGED <<outcome, scanIdx, epIdx, accessing, accessCount, spiderCount,
                   activeCount, scanResults>>
    /\ ScanIdleRest

\* getResults, which never raises, and the success record of processBatch.
ScanCollect ==
    /\ pc = "collect"
    /\ scanResults' = Append(scanResults, [scanUrl |-> scanTarget, success |-> TRUE])
    /\ scanIdx' = scanIdx + 1
    /\ pc' = "scanUrl"
    /\ UNCHANGED <<outcome, epIdx, accessing, inFlight, accessCount, spiderCount,
                   activeCount>>
    /\ ScanIdleRest

\* endpoints.slice(i, i + size) as a set.
group(endpoints, k, size) ==
    {endpoints[n] : n \in (k + 1)..Min(k + size, Len(endpoints))}

\* endpointOnlyScan: accessUrl is called for the next five endpoints at once.
EpAccessBatch ==
    /\ pc = "epAccess"
    /\ epIdx < Len(input.endpoints)
    /\ accessing' = group(input.endpoints, epIdx, accessBatchSize)
    /\ accessCount' = counted(accessCount, accessing')
    /\ pc' = "epAccessWait"
    /\ UNCHANGED <<outcome, scanIdx, epIdx, inFlight, spiderCount, activeCount,
                   scanResults>>
    /\ ScanIdleRest

\* One accessUrl call of the sub-batch ends, well or not.
EpAccessDone ==
    /\ pc = "epAccessWait"
    /\ \E u \in accessing : accessing' = accessing \ {u}
    /\ UNCHANGED <<pc, outcome, scanIdx, epIdx, inFlight, accessCount,
                   spiderCount, activeCount, scanResults>>
    /\ ScanIdleRest

\* The next sub-batch is taken up without awaiting Promise.all.
EpAccessNextEarly ==
    /\ pc = "epAccessWait"
    /\ epIdx' = epIdx + accessBatchSize
    /\ pc' = "epAccess"
    /\ UNCHANGED <<outcome, scanIdx, accessing, inFlight, accessCount,
                   spiderCount, activeCount, scanResults>>
    /\ ScanIdleRest

\* Promise.all of the sub-batch has settled: on to the next one.
EpAccessNext ==
    /\ pc = "epAccessWait"
    /\ accessing = {}
    /\ epIdx' = epIdx + accessBatchSize
    /\ pc' = "epAccess"
    /\ UNCHANGED <<outcome, scanIdx, accessing, inFlight, accessCount,
                   spiderCount, activeCount, scanResults>>
    /\ ScanIdleRest

\* Every endpoint has been accessed: active scans unless passive-only.
EpAccessEnd ==
    /\ pc = "epAccess"
    /\ epIdx >= Len(input.endpoints)
    /\ epIdx' = 0
    /\ pc' = IF input.passiveScanOnly THEN "settle" ELSE "epActive"
    /\ UNCHANGED <<outcome, scanIdx, accessing, inFlight, accessCount,
                   spiderCount, activeCount, scanResults>>
    /\ ScanIdleRest

\* Every endpoint in one group.
maxConcurrentAll(endpoints) == Len(endpoints)

\* Math.min(3, endpoints.length)
maxConcurrent(endpoints) == Min(maxActiveScans, Len(endpoints))

\* endpointOnlyScan: activeScan is called for every endpoint of the next
\* group; a start request that fails is caught and ends that scan.
EpActiveGroup ==
    /\ pc = "epActive"
    /\ epIdx < Len(input.endpoints)
    /\ LET g == group(input.endpoints, epIdx, maxConcurrent(input.endpoints))
       IN  /\ activeCount' = counted(activeCount, g)
           /\ \E started \in SUBSET g : inFlight' = started
    /\ pc' = "epActiveWait"
    /\ UNCHANGED <<outcome, scanIdx, epIdx, accessing, accessCount, spiderCount,
                   scanResults>>
    /\ ScanIdleRest

\* One active scan of the group is done polling.
EpActiveDone ==
    /\ pc = "epActiveWait"
    /\ \E u \in inFlight : inFlight' = inFlight \ {u}
    /\ UNCHANGED <<pc, outcome, scanIdx, epIdx, accessing, accessCount,
                   spiderCount, activeCount, scanResults>>
    /\ ScanIdleRest

\* Promise.all of the group has settled: on to the next group.
EpActiveNext ==
    /\ pc = "epActiveWait"
    /\ inFlight = {}
    /\ epIdx' = epIdx + maxConcurrent(input.endpoints)
    /\ pc' = "epActive"
    /\ UNCHANGED <<outcome, scanIdx, accessing, inFlight, accessCount,
                   spiderCount, activeCount, scanResults>>
    /\ ScanIdleRest

\* Every group has been scanned.
EpActiveEnd ==
    /\ pc = "epActive"
    /\ epIdx >= Len(input.endpoints)
    /\ pc' = "settle"
    /\ UNCHANGED <<outcome, scanVars>>
    /\ ScanIdleRest

\* endpointOnlyScan: waitForPassiveScanCompletion, which never raises.
EpSettle ==
    /\ pc = "settle"
    /\ pc' = "collect"
    /\ UNCHANGED <<outcome, scanVars>>
    /\ ScanIdleRest

\* processBatch returns batchResults.
ScanBatchReturn ==
    /\ pc = "scanUrl"
    /\ scanIdx = Len(input.urls)
    /\ pc' = "done"
    /\ outcome' = "returned"
    /\ UNCHANGED scanVars
    /\ ScanIdleRest

NextScan ==
    \/ ScanSkipExcluded
    \/ ScanFull
    \/ ScanEndpointOnly
    \/ FullAccessUrl
    \/ FullSpiderScan
    \/ FullActiveStart
    \/ FullActiveDone
    \/ ScanCollect
    \/ EpAccessBatch
    \/ EpAccessDone
    \/ EpAccessNext
    \/ EpAccessEnd
    \/ EpActiveGroup
    \/ EpActiveDone
    \/ EpActiveNext
    \/ EpActiveEnd
    \/ EpSettle
    \/ ScanBatchReturn

SpecScan == InitScan /\ [][NextScan]_vars

\* -------------------------------------------- the result processor: one alert
\* processAlert with determineEffort and calculateImpactScore, studied on their
\* own.  A string the code searches or compares by character is a tuple of
\* its characters; <<>> is the empty string or an absent value.

UpperCase == <<"A", "B", "C", "D", "E", "F", "G", "H", "I", "J", "K", "L", "M", "N", "O", "P", "Q", "R", "S", "T", "U", "V", "W", "X", "Y", "Z">>
LowerCase == <<"a", "b", "c", "d", "e", "f", "g", "h", "i", "j", "k", "l", "m", "n", "o", "p", "q", "r", "s", "t", "u", "v", "w", "x", "y", "z">>

\* String.prototype.toLowerCase
toLowerCase(s) ==
    [k \in 1..Len(s) |->
        IF \E c \in DOMAIN UpperCase : UpperCase[c] = s[k]
        THEN LowerCase[CHOOSE c \in DOMAIN UpperCase : UpperCase[c] = s[k]]
        ELSE s[k]]

\* t is found in s at position k
matchesAt(s, t, k) ==
    /\ k + Len(t) - 1 <= Len(s)
    /\ \A j \in 1..Len(t) : s[k + j - 1] = t[j]

\* String.prototype.startsWith
startsWith(s, t) == matchesAt(s, t, 1)

\* String.prototype.includes
strIncludes(s, t) == \E k \in 1..(Len(s) + 1) : matchesAt(s, t, k)

EFFORT_MAPPING ==
    (<<"C", "r", "o", "s", "s", " ", "S", "i", "t", "e", " ", "S", "c", "r", "i", "p", "t", "i", "n", "g", " ", "(", "X", "S", "S", ")">> :> "High")
    @@ (<<"S", "Q", "L", " ", "I", "n", "j", "e", "c", "t", "i", "o", "n">> :> "High")
    @@ (<<"P", "a", "t", "h", " ", "T", "r", "a", "v", "e", "r", "s", "a", "l">> :> "High")
    @@ (<<"R", "e", "m", "o", "t", "e", " ", "F", "i", "l", "e", " ", "I", "n", "c", "l", "u", "s", "i", "o", "n">> :> "High")
    @@ (<<"X", "M", "L", " ", "E", "x", "t", "e", "r", "n", "a", "l", " ", "E", "n", "t", "i", "t", "y", " ", "(", "X", "X", "E", ")">> :> "High")
    @@ (<<"S", "e", "r", "v", "e", "r", " ", "S", "i", "d", "e", " ", "R", "e", "q", "u", "e", "s", "t", " ", "F", "o", "r", "g", "e", "r", "y", " ", "(", "S", "S", "R", "F", ")">> :> "High")
    @@ (<<"I", "n", "s", "e", "c", "u", "r", "e", " ", "D", "i", "r", "e", "c", "t", " ", "O", "b", "j", "e", "c", "t", " ", "R", "e", "f", "e", "r", "e", "n", "c", "e", "s">> :> "High")
    @@ (<<"C", "r", "o", "s", "s", "-", "S", "i", "t", "e", " ", "R", "e", "q", "u", "e", "s", "t", " ", "F", "o", "r", "g", "e", "r", "y", " ", "(", "C", "S", "R", "F", ")">> :> "Medium")
    @@ (<<"M", "i", "s", "s", "i", "n", "g", " ", "A", "n", "t", "i", "-", "c", "l", "i", "c", "k", "j", "a", "c", "k", "i", "n", "g", " ", "H", "e", "a", "d", "e", "r">> :> "Medium")
    @@ (<<"C", "o", "n", "t", "e", "n", "t", " ", "S", "e", "c", "u", "r", "i", "t", "y", " ", "P", "o", "l", "i", "c", "y", " ", "(", "C", "S", "P", ")", " ", "H", "e", "a", "d", "e", "r", " ", "N", "o", "t", " ", "S", "e", "t">> :> "Medium")
    @@ (<<"X", "-", "C", "o", "n", "t", "e", "n", "t", "-", "T", "y", "p", "e", "-", "O", "p", "t", "i", "o", "n", "s", " ", "H", "e", "a", "d", "e", "r", " ", "M", "i", "s", "s", "i", "n", "g">> :> "Low")
    @@ (<<"X", "-", "F", "r", "a", "m", "e", "-", "O", "p", "t", "i", "o", "n", "s", " ", "H", "e", "a", "d", "e", "r", " ", "N", "o", "t", " ", "S", "e", "t">> :> "Low")
    @@ (<<"S", "t", "r", "i", "c", "t", "-", "T", "r", "a", "n", "s", "p", "o", "r", "t", "-", "S", "e", "c", "u", "r", "i", "t", "y", " ", "H", "e", "a", "d", "e", "r", " ", "N", "o", "t", " ", "S", "e", "t">> :> "Low")
    @@ (<<"W", "e", "a", "k", " ", "A", "u", "t", "h", "e", "n", "t", "i", "c", "a", "t", "i", "o", "n", " ", "M", "e", "t", "h", "o", "d">> :> "Medium")
    @@ (<<"I", "n", "s", "e", "c", "u", "r", "e", " ", "H", "T", "T", "P", " ", "M", "e", "t", "h", "o", "d">> :> "Medium")
    @@ (<<"D", "i", "r", "e", "c", "t", "o", "r", "y", " ", "B", "r", "o", "w", "s", "i", "n", "g">> :> "Medium")
    @@ (<<"S", "e", "s", "s", "i", "o", "n", " ", "I", "D", " ", "i", "n", " ", "U", "R", "L", " ", "R", "e", "w", "r", "i", "t", "e">> :> "Medium")
    @@ (<<"C", "o", "o", "k", "i", "e", " ", "W", "i", "t", "h", "o", "u", "t", " ", "S", "a", "m", "e", "S", "i", "t", "e", " ", "A", "t", "t", "r", "i", "b", "u", "t", "e">> :> "Low")
    @@ (<<"C", "o", "o", "k", "i", "e", " ", "W", "i", "t", "h", "o", "u", "t", " ", "S", "e", "c", "u", "r", "e", " ", "F", "l", "a", "g">> :> "Low")
    @@ (<<"C", "o", "o", "k", "i", "e", " ", "W", "i", "t", "h", "o", "u", "t", " ", "H", "t", "t", "p", "O", "n", "l", "y", " ", "F", "l", "a", "g">> :> "Low")
    @@ (<<"I", "n", "f", "o", "r", "m", "a", "t", "i", "o", "n", " ", "D", "i", "s", "c", "l", "o", "s", "u", "r", "e">> :> "Low")
    @@ (<<"S", "e", "r", "v", "e", "r", " ", "L", "e", "a", "k", "s", " ", "V", "e", "r", "s", "i", "o", "n", " ", "I", "n", "f", "o", "r", "m", "a", "t", "i", "o", "n">> :> "Low")
    @@ (<<"S", "e", "r", "v", "e", "r", " ", "L", "e", "a", "k", "s", " ", "I", "n", "f", "o", "r", "m", "a", "t", "i", "o", "n", " ", "v", "i", "a", " ", "\"", "X", "-", "P", "o", "w", "e", "r", "e", "d", "-", "B", "y", "\"">> :> "Low")
    @@ (<<"T", "i", "m", "e", "s", "t", "a", "m", "p", " ", "D", "i", "s", "c", "l", "o", "s", "u", "r", "e">> :> "Low")
    @@ (<<"H", "a", "s", "h", " ", "D", "i", "s", "c", "l", "o", "s", "u", "r", "e">> :> "Low")
    @@ (<<"E", "m", "a", "i", "l", " ", "D", "i", "s", "c", "l", "o", "s", "u", "r", "e">> :> "Low")
    @@ (<<"C", "r", "e", "d", "i", "t", " ", "C", "a", "r", "d", " ", "D", "i", "s", "c", "l", "o", "s", "u", "r", "e">> :> "Low")
    @@ (<<"P", "r", "i", "v", "a", "t", "e", " ", "I", "P", " ", "D", "i", "s", "c", "l", "o", "s", "u", "r", "e">> :> "Low")
    @@ (<<"S", "e", "s", "s", "i", "o", "n", " ", "M", "a", "n", "a", "g", "e", "m", "e", "n", "t", " ", "R", "e", "s", "p", "o", "n", "s", "e", " ", "I", "d", "e", "n", "t", "i", "f", "i", "e", "d">> :> "Low")

DEFAULT_EFFORT_BY_RISK ==
    [High |-> "High", Medium |-> "Medium", Low |-> "Low", Informational |-> "Low"]

Risks == {"High", "Medium", "Low", "Informational"}

\* determineEffort with the substring rules tried before the table.
determineEffortRulesFirst(vulnerabilityName, riskLevel) ==
    LET lowerName == toLowerCase(vulnerabilityName)
    IN  IF \/ strIncludes(lowerName, <<"x", "s", "s">>)
           \/ strIncludes(lowerName, <<"c", "r", "o", "s", "s", "-", "s", "i", "t", "e", " ", "s", "c", "r", "i", "p", "t", "i", "n", "g">>)
            THEN "High"
        ELSE IF strIncludes(lowerName, <<"i", "n", "j", "e", "c", "t", "i", "o", "n">>)
            THEN "High"
        ELSE IF /\ strIncludes(lowerName, <<"h", "e", "a", "d", "e", "r">>)
                /\ \/ strIncludes(lowerName, <<"m", "i", "s", "s", "i", "n", "g">>)
                   \/ strIncludes(lowerName, <<"n", "o", "t", " ", "s", "e", "t">>)
            THEN "Low"
        ELSE IF strIncludes(lowerName, <<"c", "o", "o", "k", "i", "e">>)
            THEN "Low"
        ELSE IF \/ strIncludes(lowerName, <<"i", "n", "f", "o", "r", "m", "a", "t", "i", "o", "n", " ", "d", "i", "s", "c", "l", "o", "s", "u", "r", "e">>)
                \/ strIncludes(lowerName, <<"l", "e", "a", "k", "s">>)
            THEN "Low"
        ELSE IF vulnerabilityName \in DOMAIN EFFORT_MAPPING
            THEN EFFORT_MAPPING[vulnerabilityName]
        ELSE IF riskLevel \in DOMAIN DEFAULT_EFFORT_BY_RISK
            THEN DEFAULT_EFFORT_BY_RISK[riskLevel]
        ELSE "Medium"

determineEffort(vulnerabilityName, riskLevel) ==
    LET lowerName == toLowerCase(vulnerabilityName)
    IN  IF vulnerabilityName \in DOMAIN EFFORT_MAPPING
            THEN EFFORT_MAPPING[vulnerabilityName]
        ELSE IF \/ strIncludes(lowerName, <<"x", "s", "s">>)
                \/ strIncludes(lowerName, <<"c", "r", "o", "s", "s", "-", "s", "i", "t", "e", " ", "s", "c", "r", "i", "p", "t", "i", "n", "g">>)
            THEN "High"
        ELSE IF \/ strIncludes(lowerName, <<"s", "q", "l", " ", "i", "n", "j", "e", "c", "t", "i", "o", "n">>)
                \/ strIncludes(lowerName, <<"i", "n", "j", "e", "c", "t", "i", "o", "n">>)
            THEN "High"
        ELSE IF /\ strIncludes(lowerName, <<"h", "e", "a", "d", "e", "r">>)
                /\ \/ strIncludes(lowerName, <<"m", "i", "s", "s", "i", "n", "g">>)
                   \/ strIncludes(lowerName, <<"n", "o", "t", " ", "s", "e", "t">>)
            THEN "Low"
        ELSE IF /\ strIncludes(lowerName, <<"c", "o", "o", "k", "i", "e">>)
                /\ ~strIncludes(lowerName, <<"i", "n", "j", "e", "c", "t", "i", "o", "n">>)
            THEN "Low"
        ELSE IF \/ strIncludes(lowerName, <<"i", "n", "f", "o", "r", "m", "a", "t", "i", "o", "n", " ", "d", "i", "s", "c", "l", "o", "s", "u", "r", "e">>)
                \/ strIncludes(lowerName, <<"l", "e", "a", "k", "s">>)
            THEN "Low"
        ELSE IF riskLevel \in DOMAIN DEFAULT_EFFORT_BY_RISK
            THEN DEFAULT_EFFORT_BY_RISK[riskLevel]
        ELSE "Medium"

riskScores == [High |-> 9, Medium |-> 6, Low |-> 3, Informational |-> 1]

\* The multipliers 1.0, 0.8, 0.6 and 0.4, in tenths.
confidenceMultiplier == [High |-> 10, Medium |-> 8, Low |-> 6, Informational |-> 4]

\* Math.round of tenths / 10, for tenths >= 0: halves go up.
roundTenths(tenths) == (tenths + 5) \div 10

\* calculateImpactScore with Math.floor in place of Math.round.
calculateImpactScoreFloor(risk, confidence) ==
    LET baseScore == IF risk \in DOMAIN riskScores THEN riskScores[risk] ELSE 5
        multiplier == IF confidence \in DOMAIN confidenceMultiplier
                      THEN confidenceMultiplier[confidence] ELSE 7
    IN  (baseScore * multiplier) \div 10

calculateImpactScore(risk, confidence) ==
    LET baseScore == IF risk \in DOMAIN riskScores THEN riskScores[risk] ELSE 5
        multiplier == IF confidence \in DOMAIN confidenceMultiplier
                      THEN confidenceMultiplier[confidence] ELSE 7
    IN  roundTenths(baseScore * multiplier)

\* instances.map(...): one entry per instance, in order.
instanceUrls(instances, alertUrl) ==
    [k \in 1..Len(instances) |->
        [url |-> IF instances[k].uri # <<>> THEN instances[k].uri ELSE alertUrl,
         param |-> instances[k].param]]

\* processAlert that takes the URL of the alert and not those of its instances.
processAlertMainUrl(alert) ==
    [id |-> <<"zap-", alert.pluginId>>,
     title |-> alert.name,
     risk |-> alert.risk,
     confidence |-> alert.confidence,
     effort |-> determineEffort(alert.name, alert.risk),
     impactScore |-> calculateImpactScore(alert.risk, alert.confidence),
     affectedUrls |-> IF alert.url # <<>> THEN <<[url |-> alert.url, param |-> <<>>]>> ELSE <<>>,
     occurrences |-> 1]

processAlert(alert) ==
    LET mapped == instanceUrls(alert.instances, alert.url)
        affectedUrls == IF mapped = <<>> /\ alert.url # <<>>
                        THEN <<[url |-> alert.url, param |-> <<>>]>>
                        ELSE mapped
    IN  [id |-> <<"zap-", alert.pluginId>>,
         title |-> alert.name,
         risk |-> alert.risk,
         confidence |-> alert.confidence,
         effort |-> determineEffort(alert.name, alert.risk),
         impactScore |-> calculateImpactScore(alert.risk, alert.confidence),
         affectedUrls |-> affectedUrls,
         occurrences |-> IF Len(alert.instances) # 0 THEN Len(alert.instances) ELSE 1]

\* Finding names the table has no key for.
OtherNames ==
    { <<"C", "r", "o", "s", "s", " ", "S", "i", "t", "e", " ", "S", "c", "r", "i", "p", "t", "i", "n", "g", " ", "(", "R", "e", "f", "l", "e", "c", "t", "e", "d", ")">>,
      <<"R", "e", "f", "l", "e", "c", "t", "e", "d", " ", "X", "S", "S">>,
      <<"C", "r", "o", "s", "s", "-", "S", "i", "t", "e", " ", "S", "c", "r", "i", "p", "t", "i", "n", "g", " ", "(", "D", "O", "M", " ", "B", "a", "s", "e", "d", ")">>,
      <<"R", "e", "m", "o", "t", "e", " ", "O", "S", " ", "C", "o", "m", "m", "a", "n", "d", " ", "I", "n", "j", "e", "c", "t", "i", "o", "n">>,
      <<"S", "Q", "L", " ", "I", "n", "j", "e", "c", "t", "i", "o", "n", " ", "-", " ", "M", "y", "S", "Q", "L">>,
      <<"C", "o", "o", "k", "i", "e", " ", "I", "n", "j", "e", "c", "t", "i", "o", "n">>,
      <<"H", "T", "T", "P", " ", "H", "e", "a", "d", "e", "r", " ", "I", "n", "j", "e", "c", "t", "i", "o", "n">>,
      <<"P", "e", "r", "m", "i", "s", "s", "i", "o", "n", "s", " ", "P", "o", "l", "i", "c", "y", " ", "H", "e", "a", "d", "e", "r", " ", "N", "o", "t", " ", "S", "e", "t">>,
      <<"S", "e", "c", "u", "r", "i", "t", "y", " ", "H", "e", "a", "d", "e", "r", " ", "M", "i", "s", "s", "i", "n", "g">>,
      <<"x", "-", "f", "r", "a", "m", "e", "-", "o", "p", "t", "i", "o", "n", "s", " ", "h", "e", "a", "d", "e", "r", " ", "n", "o", "t", " ", "s", "e", "t">>,
      <<"H", "E", "A", "D", "E", "R", " ", "M", "I", "S", "S", "I", "N", "G">>,
      <<"B", "i", "g", " ", "R", "e", "d", "i", "r", "e", "c", "t", " ", "H", "e", "a", "d", "e", "r", " ", "D", "e", "t", "e", "c", "t", "e", "d">>,
      <<"L", "o", "o", "s", "e", "l", "y", " ", "S", "c", "o", "p", "e", "d", " ", "C", "o", "o", "k", "i", "e">>,
      <<"I", "n", "f", "o", "r", "m", "a", "t", "i", "o", "n", " ", "D", "i", "s", "c", "l", "o", "s", "u", "r", "e", " ", "-", " ", "D", "e", "b", "u", "g", " ", "E", "r", "r", "o", "r", " ", "M", "e", "s", "s", "a", "g", "e", "s">>,
      <<"A", "p", "p", "l", "i", "c", "a", "t", "i", "o", "n", " ", "L", "e", "a", "k", "s", " ", "S", "t", "a", "c", "k", " ", "T", "r", "a", "c", "e", "s">>,
      <<"V", "u", "l", "n", "e", "r", "a", "b", "l", "e", " ", "J", "S", " ", "L", "i", "b", "r", "a", "r", "y">>,
      <<"M", "o", "d", "e", "r", "n", " ", "W", "e", "b", " ", "A", "p", "p", "l", "i", "c", "a", "t", "i", "o", "n">>,
      <<>> }

Names == DOMAIN EFFORT_MAPPING \cup OtherNames

\* "Confirmed" is a confidence and "Critical" a risk the tables do not hold.
AlertInputs ==
    [pluginId : {10020},
     name : Names,
     risk : Risks \cup {"Critical"},
     confidence : Risks \cup {"Confirmed"},
     url : {<<"h", "t", "t", "p", "s", ":", "/", "/", "a", ".", "e", "x", "a", "m", "p", "l", "e", "/", "x">>},
     instances : {<<>>, <<[uri |-> <<"h", "t", "t", "p", "s", ":", "/", "/", "a", ".", "e", "x", "a", "m", "p", "l", "e", "/", "y">>, param |-> <<"i", "d">>]>>}]

EvalIdle ==
    /\ MainIdle
    /\ PollIdle
    /\ CfgIdle
    /\ ScanIdle
    /\ calls = <<>>
    /\ failed = {}
    /\ spiderUrls = <<>>
    /\ passiveRecords = 0
    /\ attempts = 0

EvalIdleRest ==
    UNCHANGED <<mainVars, attempts, pollVars, cfgVars, scanVars,
                calls, failed, spiderUrls, passiveRecords>>

InitAlert ==
    /\ input \in AlertInputs
    /\ EvalIdle
    /\ pc = "processAlert"
    /\ outcome = "none"
    /\ resAlerts = <<>>
    /\ result = <<>>

\* The call processAlert(input).
ApplyProcessAlert ==
    /\ pc = "processAlert"
    /\ result' = <<processAlert(input)>>
    /\ pc' = "processed"
    /\ outcome' = "returned"
    /\ UNCHANGED resAlerts
    /\ EvalIdleRest

NextAlert == ApplyProcessAlert

SpecAlert == InitAlert /\ [][NextAlert]_vars

\* ------------------------------------ the result processor: the summary
\* calculateSecuritySummary on a list of issues, studied on its own.

MaxIssues == 6    \* longest list of issues summarised

\* risk.toLowerCase() and effort.toLowerCase() on the words that occur.
lowerWord ==
    [High |-> "high", Medium |-> "medium", Low |-> "low",
     Informational |-> "informational", Critical |-> "critical"]

\* How many issues have the key in the field, lower-cased.
RECURSIVE distribution(_, _, _)
distribution(issues, field, key) ==
    IF issues = <<>> THEN 0
    ELSE (IF lowerWord[Head(issues)[field]] = key THEN 1 ELSE 0)
         + distribution(Tail(issues), field, key)

\* overallSecurityScore without the lower limit of 0.
overallSecurityScoreUnlimited(riskDistribution) ==
    100 - riskDistribution.high * 20 - riskDistribution.medium * 10
        - riskDistribution.low * 5

overallSecurityScore(riskDistribution) ==
    LET maxPossibleScore == 100
        highRiskPenalty == riskDistribution.high * 20
        mediumRiskPenalty == riskDistribution.medium * 10
        lowRiskPenalty == riskDistribution.low * 5
        score == maxPossibleScore - highRiskPenalty - mediumRiskPenalty - lowRiskPenalty
    IN  IF score > 0 THEN score ELSE 0

calculateSecurityGrade(score) ==
    IF score >= 90 THEN "A"
    ELSE IF score >= 80 THEN "B"
    ELSE IF score >= 70 THEN "C"
    ELSE IF score >= 60 THEN "D"
    ELSE "F"

\* The entry vulnerabilityGroups.set makes for a title seen first.
newGroup(issue) ==
    [title |-> issue.title,
     risk |-> issue.risk,
     impactScore |-> issue.impactScore,
     effort |-> issue.effort,
     occurrences |-> issue.occurrences,
     totalAffectedUrls |-> Len(issue.affectedUrls)]

\* The update of the entry of a title seen before; the variant with the
\* strictly higher impact score replaces score, risk and effort.
mergeGroup(existing, issue) ==
    LET tallied == [existing EXCEPT
                        !.occurrences = @ + issue.occurrences,
                        !.totalAffectedUrls = @ + Len(issue.affectedUrls)]
    IN  IF issue.impactScore > existing.impactScore
        THEN [tallied EXCEPT !.impactScore = issue.impactScore,
                             !.risk = issue.risk,
                             !.effort = issue.effort]
        ELSE tallied

\* The values of the Map vulnerabilityGroups, in insertion order, after the
\* issues have been added to the entries made so far.
RECURSIVE vulnerabilityGroups(_, _)
vulnerabilityGroups(made, issues) ==
    IF issues = <<>> THEN made
    ELSE LET issue == Head(issues)
             at == {k \in 1..Len(made) : made[k].title = issue.title}
         IN  vulnerabilityGroups(
                 IF at = {} THEN Append(made, newGroup(issue))
                 ELSE [k \in 1..Len(made) |->
                          IF k \in at THEN mergeGroup(made[k], issue) ELSE made[k]],
                 Tail(issues))

\* Array.prototype.sort with (a, b) => b.impactScore - a.impactScore: the
\* sort is stable, so an entry goes behind those of the same score.
RECURSIVE sortByImpactScore(_)
sortByImpactScore(entries) ==
    IF entries = <<>> THEN <<>>
    ELSE LET last == entries[Len(entries)]
             before == sortByImpactScore(SubSeq(entries, 1, Len(entries) - 1))
             ahead == Cardinality({k \in 1..Len(before) :
                                      before[k].impactScore >= last.impactScore})
         IN  SubSeq(before, 1, ahead) \o <<last>>
                 \o SubSeq(before, ahead + 1, Len(before))

\* topVulnerabilities that keeps the order of the Map.
topVulnerabilitiesUnsorted(entries) ==
    LET kept == slice(entries, 0, 10)
    IN  [k \in 1..Len(kept) |->
            [title |-> kept[k].title,
             risk |-> kept[k].risk,
             impact |-> kept[k].impactScore,
             effort |-> kept[k].effort,
             occurrences |-> kept[k].occurrences]]

topVulnerabilities(entries) ==
    LET kept == slice(sortByImpactScore(entries), 0, 10)
    IN  [k \in 1..Len(kept) |->
            [title |-> kept[k].title,
             risk |-> kept[k].risk,
             impact |-> kept[k].impactScore,
             effort |-> kept[k].effort,
             occurrences |-> kept[k].occurrences]]

criticalFindings(entries) ==
    LET isHigh(vuln) == vuln.risk = "High"
        kept == SelectSeq(entries, isHigh)
    IN  [k \in 1..Len(kept) |->
            [title |-> kept[k].title,
             impactScore |-> kept[k].impactScore,
             affectedUrls |-> kept[k].totalAffectedUrls]]

calculateSecuritySummary(issues) ==
    LET riskDistribution ==
            [high |-> distribution(issues, "risk", "high"),
             medium |-> distribution(issues, "risk", "medium"),
             low |-> distribution(issues, "risk", "low"),
             informational |-> distribution(issues, "risk", "informational")]
        effortDistribution ==
            [high |-> distribution(issues, "effort", "high"),
             medium |-> distribution(issues, "effort", "medium"),
             low |-> distribution(issues, "effort", "low")]
    IN  [totalIssues |-> Len(issues),
         riskDistribution |-> riskDistribution,
         effortDistribution |-> effortDistribution,
         overallSecurityScore |-> overallSecurityScore(riskDistribution),
         securityGrade |-> calculateSecurityGrade(overallSecurityScore(riskDistribution)),
         topVulnerabilities |-> topVulnerabilities(vulnerabilityGroups(<<>>, issues)),
         criticalFindings |-> criticalFindings(vulnerabilityGroups(<<>>, issues))]

\* Lists of issues of every risk; the issues of a list share their effort
\* and their title, and each was seen once at one URL.
SummaryInputs ==
    { [k \in 1..Len(rs) |->
          [title |-> "finding", risk |-> rs[k], effort |-> e,
           impactScore |-> calculateImpactScore(rs[k], "Medium"),
           affectedUrls |-> <<k>>, occurrences |-> 1]] :
        rs \in SeqsUpTo(Risks, MaxIssues), e \in {"High", "Low"} }

InitSummary ==
    /\ input \in SummaryInputs
    /\ EvalIdle
    /\ pc = "calculateSecuritySummary"
    /\ outcome = "none"
    /\ resAlerts = <<>>
    /\ result = <<>>

\* The call calculateSecuritySummary(input).
ApplySecuritySummary ==
    /\ pc = "calculateSecuritySummary"
    /\ result' = <<calculateSecuritySummary(input)>>
    /\ pc' = "summarised"
    /\ outcome' = "returned"
    /\ UNCHANGED resAlerts
    /\ EvalIdleRest

NextSummary == ApplySecuritySummary

SpecSummary == InitSummary /\ [][NextSummary]_vars

\* ------------------------------- index.js: generateSecurityRecommendations
\* The recommendation pushed for one of the common issues.
fixRecommendation(issue) ==
    [priority |-> IF issue.risk = "High" THEN "Critical"
                  ELSE IF issue.risk = "Medium" THEN "High" ELSE "Medium",
     title |-> <<"Fix", issue.title>>,
     description |-> <<"Found in", issue.occurrences, "locations. This",
                       lowerWord[issue.risk], "-risk issue should be addressed.">>,
     effort |-> issue.effort,
     impact |-> issue.risk]

\* generateSecurityRecommendations with the best-practice rule tried first.
generateSecurityRecommendationsHeadersFirst(results) ==
    LET summary == results.summary
        commonIssues == slice(summary.topVulnerabilities, 0, 3)
    IN  slice(
            (IF summary.riskDistribution.low
                    + summary.riskDistribution.informational > 10
             THEN <<[priority |-> "Medium",
                     title |-> <<"Implement Security Headers">>,
                     description |-> <<"Multiple security header issues found.">>,
                     effort |-> "Low",
                     impact |-> "Medium"]>>
             ELSE <<>>)
            \o (IF summary.riskDistribution.high > 0
                THEN <<[priority |-> "Critical",
                        title |-> <<"Address High-Risk Vulnerabilities Immediately">>,
                        description |-> <<summary.riskDistribution.high,
                                          "high-risk vulnerabilities found">>,
                        effort |-> "High",
                        impact |-> "High"]>>
                ELSE <<>>)
            \o (IF summary.overallSecurityScore < 60
                THEN <<[priority |-> "High",
                        title |-> <<"Implement Comprehensive Security Review">>,
                        description |-> <<"Overall security score is below acceptable threshold.">>,
                        effort |-> "High",
                        impact |-> "High"]>>
                ELSE <<>>)
            \o [k \in 1..Len(commonIssues) |-> fixRecommendation(commonIssues[k])],
            0, 10)

generateSecurityRecommendations(results) ==
    LET summary == results.summary
        commonIssues == slice(summary.topVulnerabilities, 0, 3)
    IN  slice(
            (IF summary.riskDistribution.high > 0
             THEN <<[priority |-> "Critical",
                     title |-> <<"Address High-Risk Vulnerabilities Immediately">>,
                     description |-> <<summary.riskDistribution.high,
                                       "high-risk vulnerabilities found">>,
                     effort |-> "High",
                     impact |-> "High"]>>
             ELSE <<>>)
            \o (IF summary.overallSecurityScore < 60
                THEN <<[priority |-> "High",
                        title |-> <<"Implement Comprehensive Security Review">>,
                        description |-> <<"Overall security score is below acceptable threshold.">>,
                        effort |-> "High",
                        impact |-> "High"]>>
                ELSE <<>>)
            \o [k \in 1..Len(commonIssues) |-> fixRecommendation(commonIssues[k])]
            \o (IF summary.riskDistribution.low
                    + summary.riskDistribution.informational > 10
                THEN <<[priority |-> "Medium",
                        title |-> <<"Implement Security Headers">>,
                        description |-> <<"Multiple security header issues found.">>,
                        effort |-> "Low",
                        impact |-> "Medium"]>>
                ELSE <<>>),
            0, 10)

\* ------------- the summary and the recommendations of many-titled lists
MaxTitles == 11    \* distinct titles of the issues the lists are made of

Title(k) == <<"finding", k>>

\* An issue as processAlert builds it for a finding whose name no effort
\* rule knows, seen once at one URL.
IssueOf(title, risk, confidence) ==
    [title |-> title,
     risk |-> risk,
     confidence |-> confidence,
     effort |-> DEFAULT_EFFORT_BY_RISK[risk],
     impactScore |-> calculateImpactScore(risk, confidence),
     affectedUrls |-> <<[url |-> <<"h", "t", "t", "p", ":", "/", "/", "a", "/">>,
                         param |-> <<>>]>>,
     occurrences |-> 1]

\* The k-th issue of a list of issues with a title each: of every risk and
\* confidence in turn ("mixed"), or of the two lowest risks ("minor").
TitledIssue(k, kind) ==
    IF kind = "mixed"
    THEN IssueOf(Title(k),
                 <<"Medium", "High", "Informational", "Low">>[((k - 1) % 4) + 1],
                 <<"High", "Low", "Medium">>[((k - 1) % 3) + 1])
    ELSE IssueOf(Title(k),
                 IF k % 2 = 1 THEN "Low" ELSE "Informational",
                 "Medium")

TitledIssues(n, kind) == [k \in 1..n |-> TitledIssue(k, kind)]

\* Further issues, of the first title or of one more title.
FurtherIssues ==
    {IssueOf(Title(t), risk, confidence) :
        t \in {1, MaxTitles + 1},
        risk \in {"High", "Medium", "Low"},
        confidence \in {"High", "Low"}}

\* Up to MaxTitles issues with a title each, with up to 2 further issues
\* before or after them.
IssueLists ==
    UNION {
        {TitledIssues(n, kind) \o further, further \o TitledIssues(n, kind)} :
            n \in 0..MaxTitles,
            kind \in {"mixed", "minor"},
            further \in SeqsUpTo(FurtherIssues, 2) }

InitRecommend ==
    /\ input \in IssueLists
    /\ EvalIdle
    /\ pc = "summarise"
    /\ outcome = "none"
    /\ resAlerts = <<>>
    /\ result = <<>>

\* processZAPResults' call of calculateSecuritySummary on the issues.
RecommendSummarise ==
    /\ pc = "summarise"
    /\ result' = <<[summary |-> calculateSecuritySummary(input)]>>
    /\ pc' = "recommend"
    /\ UNCHANGED <<outcome, resAlerts>>
    /\ EvalIdleRest

\* formatSecurityResults adds the recommendations to the processed results.
RecommendGenerate ==
    /\ pc = "recommend"
    /\ result' = <<[summary |-> result[1].summary,
                    recommendations |-> generateSecurityRecommendations(result[1])]>>
    /\ pc' = "recommended"
    /\ outcome' = "returned"
    /\ UNCHANGED resAlerts
    /\ EvalIdleRest

NextRecommend == RecommendSummarise \/ RecommendGenerate

SpecRecommend == InitRecommend /\ [][NextRecommend]_vars

\* ------------------------------- the result processor: the whole report
\* formatSecurityResults gathers the alerts of the outcomes of a run and
\* processZAPResults turns them into issues, website reports and a summary.

MaxOutcomes == 2    \* most scan outcomes of a run

\* The index of the first ":" of s, or 0.
colonAt(s) ==
    IF \E k \in 1..Len(s) : s[k] = ":"
    THEN CHOOSE k \in 1..Len(s) : s[k] = ":" /\ \A j \in 1..(k - 1) : s[j] # ":"
    ELSE 0

\* The index after the host of s: of the first "/", "?" or "#" behind the
\* "//" of s, or Len(s) + 1.
hostEnd(s) ==
    LET from == colonAt(s) + 3
        stops == {k \in from..Len(s) : s[k] \in {"/", "?", "#"}}
    IN  IF stops = {} THEN Len(s) + 1
        ELSE CHOOSE k \in stops : \A j \in stops : k <= j

\* new URL(s) does not throw: s is scheme://host... with a scheme of letters
\* and a host.  URLs with user names, ports or other schemes do not occur.
parsesAsURL(s) ==
    LET c == colonAt(s)
    IN  /\ c > 1
        /\ \A k \in 1..(c - 1) :
               \E a \in DOMAIN LowerCase : toLowerCase(<<s[k]>>) = <<LowerCase[a]>>
        /\ c + 2 <= Len(s)
        /\ s[c + 1] = "/"
        /\ s[c + 2] = "/"
        /\ hostEnd(s) > c + 3

\* new URL(s).protocol
urlProtocol(s) == toLowerCase(SubSeq(s, 1, colonAt(s)))

\* new URL(s).host
urlHost(s) == toLowerCase(SubSeq(s, colonAt(s) + 3, hostEnd(s) - 1))

\* `${url.protocol}//${url.host}`
websiteOf(s) == urlProtocol(s) \o <<"/", "/">> \o urlHost(s)

newWebsite(website, host) ==
    [website |-> website,
     domain |-> host,
     issues |-> <<>>,
     summary |-> [totalIssues |-> 0, highRisk |-> 0, mediumRisk |-> 0,
                  lowRisk |-> 0, informational |-> 0, overallRiskScore |-> 0]]

\* summary.totalIssues++; summary[riskKey] = (summary[riskKey] || 0) + 1
countIssue(summary, risk) ==
    LET riskKey == lowerWord[risk]
        before == IF riskKey \in DOMAIN summary THEN summary[riskKey] ELSE 0
        counted1 == [summary EXCEPT !["totalIssues"] = @ + 1]
    IN  (riskKey :> (before + 1)) @@ counted1

\* The filter of the copy: no affected URL of the issue is kept.
retainedNever(u, website, host) == FALSE

\* The filter of the copy an issue leaves in a website: u.url starts with
\* the website, or its host is the website's; a URL that does not parse is
\* not kept.
retained(u, website, host) ==
    \/ startsWith(u.url, website)
    \/ parsesAsURL(u.url) /\ urlHost(u.url) = host

RECURSIVE filterUrls(_, _, _)
filterUrls(urls, website, host) ==
    IF urls = <<>> THEN <<>>
    ELSE (IF retained(Head(urls), website, host) THEN <<Head(urls)>> ELSE <<>>)
         \o filterUrls(Tail(urls), website, host)

\* One step of urlsToProcess.forEach: the website map after urlInfo.
groupUrl(websiteMap, issue, urlsToProcess, urlInfo) ==
    IF ~parsesAsURL(urlInfo.url) THEN websiteMap
    ELSE
        LET website == websiteOf(urlInfo.url)
            host == urlHost(urlInfo.url)
            map == IF \E k \in DOMAIN websiteMap : websiteMap[k].website = website
                   THEN websiteMap
                   ELSE Append(websiteMap, newWebsite(website, host))
            at == CHOOSE k \in DOMAIN map : map[k].website = website
            websiteData == map[at]
        IN  IF \E j \in DOMAIN websiteData.issues : websiteData.issues[j].id = issue.id
            THEN map
            ELSE [map EXCEPT ![at] =
                    [websiteData EXCEPT
                        !.issues = Append(@, [issue EXCEPT !.affectedUrls =
                                        filterUrls(urlsToProcess, website, host)]),
                        !.summary = countIssue(@, issue.risk)]]

RECURSIVE groupUrls(_, _, _, _)
groupUrls(websiteMap, issue, urlsToProcess, k) ==
    IF k > Len(urlsToProcess) THEN websiteMap
    ELSE groupUrls(groupUrl(websiteMap, issue, urlsToProcess, urlsToProcess[k]),
                   issue, urlsToProcess, k + 1)

\* issues.forEach: the website map after all issues.
RECURSIVE groupIssues(_, _, _)
groupIssues(websiteMap, issues, target) ==
    IF issues = <<>> THEN websiteMap
    ELSE
        LET issue == Head(issues)
            urlsToProcess == IF issue.affectedUrls # <<>> THEN issue.affectedUrls
                             ELSE IF target # <<>> THEN <<[url |-> target]>>
                             ELSE <<>>
        IN  groupIssues(groupUrls(websiteMap, issue, urlsToProcess, 1),
                        Tail(issues), target)

RECURSIVE totalScore(_)
totalScore(issues) ==
    IF issues = <<>> THEN 0 ELSE Head(issues).impactScore + totalScore(Tail(issues))

\* Math.round(totalScore / issues.length): halves go up.
calculateOverallRiskScore(issues) ==
    IF issues = <<>> THEN 0
    ELSE (2 * totalScore(issues) + Len(issues)) \div (2 * Len(issues))

groupIssuesByWebsite(issues, target) ==
    LET websiteMap == groupIssues(<<>>, issues, target)
    IN  [k \in DOMAIN websiteMap |->
            [websiteMap[k] EXCEPT !.summary =
                [@ EXCEPT !["overallRiskScore"] =
                    calculateOverallRiskScore(websiteMap[k].issues)]]]

processZAPResults(zapResults) ==
    LET processedIssues ==
            [k \in DOMAIN zapResults.alerts |-> processAlert(zapResults.alerts[k])]
    IN  [summary |-> calculateSecuritySummary(processedIssues),
         websites |-> groupIssuesByWebsite(processedIssues, zapResults.targetUrl),
         totalIssues |-> Len(processedIssues),
         scanTarget |-> zapResults.targetUrl]

\* formatSecurityResults: the alerts of the successful outcomes, in order.
RECURSIVE allAlerts(_)
allAlerts(rawResults) ==
    IF rawResults = <<>> THEN <<>>
    ELSE (IF Head(rawResults).success /\ Head(rawResults).alerts # <<>>
          THEN Head(rawResults).alerts ELSE <<>>)
         \o allAlerts(Tail(rawResults))

\* originalInput.endpoints?.[0] || 'Multiple URLs'
targetUrl(originalInput) ==
    IF originalInput.endpoints # <<>> /\ originalInput.endpoints[1] # <<>>
    THEN originalInput.endpoints[1]
    ELSE <<"M", "u", "l", "t", "i", "p", "l", "e", " ", "U", "R", "L", "s">>

UrlAX == <<"h", "t", "t", "p", "s", ":", "/", "/", "a", ".", "e", "x", "a", "m", "p", "l", "e", "/", "x">>
UrlAY == <<"h", "t", "t", "p", "s", ":", "/", "/", "a", ".", "e", "x", "a", "m", "p", "l", "e", "/", "y">>
UrlAZ == <<"h", "t", "t", "p", "s", ":", "/", "/", "a", ".", "e", "x", "a", "m", "p", "l", "e", "/", "z">>
UrlBX == <<"h", "t", "t", "p", "s", ":", "/", "/", "b", ".", "e", "x", "a", "m", "p", "l", "e", "/", "x">>
\* the host of UrlAX under another scheme
UrlHttpAX == <<"h", "t", "t", "p", ":", "/", "/", "a", ".", "e", "x", "a", "m", "p", "l", "e", "/", "x">>
\* a host that extends the origin of UrlAX
UrlLongAX == <<"h", "t", "t", "p", "s", ":", "/", "/", "a", ".", "e", "x", "a", "m", "p", "l", "e", ".", "e", "v", "i", "l", ".", "t", "e", "s", "t", "/", "x">>

Instance(uri, param) == [uri |-> uri, param |-> param]

\* What an alert says about where it was found: its url and its instances.
AlertPlaces ==
    { <<UrlAX, <<>>>>,
      <<UrlAY, <<>>>>,
      <<UrlBX, <<>>>>,
      <<<<>>, <<>>>>,
      <<UrlAX, <<Instance(UrlAX, <<>>)>>>>,
      <<UrlAX, <<Instance(UrlAX, <<>>), Instance(UrlAY, <<>>)>>>>,
      <<UrlAX, <<Instance(UrlAX, <<>>), Instance(UrlAY, <<>>), Instance(UrlAZ, <<>>)>>>>,
      <<UrlAX, <<Instance(UrlAX, <<"i", "d">>), Instance(UrlAX, <<"q">>)>>>>,
      <<UrlAX, <<Instance(UrlAX, <<>>), Instance(UrlBX, <<>>)>>>>,
      <<UrlAX, <<Instance(UrlAX, <<>>), Instance(UrlHttpAX, <<>>)>>>>,
      <<UrlAX, <<Instance(UrlAX, <<>>), Instance(UrlLongAX, <<>>)>>>> }

\* The places the second finding is reported at.
FewPlaces ==
    { <<UrlAX, <<>>>>,
      <<<<>>, <<>>>>,
      <<UrlAX, <<Instance(UrlAX, <<>>), Instance(UrlAY, <<>>)>>>> }

\* The two findings of the engine that are reported.
SqlInjection ==
    [pluginId |-> 40018, name |-> <<"S", "Q", "L", " ", "I", "n", "j", "e", "c", "t", "i", "o", "n">>,
     risk |-> "High", confidence |-> "High"]

XFrameOptions ==
    [pluginId |-> 10020, name |-> <<"X", "-", "F", "r", "a", "m", "e", "-", "O", "p", "t", "i", "o", "n", "s", " ", "H", "e", "a", "d", "e", "r", " ", "N", "o", "t", " ", "S", "e", "t">>,
     risk |-> "Medium", confidence |-> "Medium"]

Alert(plugin, place) ==
    [pluginId |-> plugin.pluginId, name |-> plugin.name, risk |-> plugin.risk,
     confidence |-> plugin.confidence, url |-> place[1], instances |-> place[2]]

Alerts ==
    {Alert(SqlInjection, place) : place \in AlertPlaces}
    \cup {Alert(XFrameOptions, place) : place \in FewPlaces}

\* The outcome of the scan of one URL: failed, or with no or one alert.
Outcomes ==
    {[success |-> FALSE, alerts |-> <<>>], [success |-> TRUE, alerts |-> <<>>]}
    \cup {[success |-> TRUE, alerts |-> <<a>>] : a \in Alerts}

EvalInputs ==
    [rawResults : SeqsUpTo(Outcomes, MaxOutcomes),
     endpoints : {<<UrlAX>>, <<UrlBX>>}]

InitEval ==
    /\ input \in EvalInputs
    /\ EvalIdle
    /\ pc = "formatSecurityResults"
    /\ outcome = "none"
    /\ resAlerts = <<>>
    /\ result = <<>>

\* formatSecurityResults: rawResults.forEach(...) fills allAlerts.
FormatCombine ==
    /\ pc = "formatSecurityResults"
    /\ resAlerts' = allAlerts(input.rawResults)
    /\ pc' = "processZAPResults"
    /\ UNCHANGED <<result, outcome>>
    /\ EvalIdleRest

\* formatSecurityResults: the call of processZAPResults and the return.
FormatProcess ==
    /\ pc = "processZAPResults"
    /\ result' = <<processZAPResults([alerts |-> resAlerts,
                                      targetUrl |-> targetUrl(input)])>>
    /\ pc' = "formatted"
    /\ outcome' = "returned"
    /\ UNCHANGED resAlerts
    /\ EvalIdleRest

NextEval ==
    \/ FormatCombine
    \/ FormatProcess

SpecEval == InitEval /\ [][NextEval]_vars

\* --------------------------------- the performance module: aggregateResults
\* aggregateResults on the results of the batches of a performance audit,
\* studied on its own.

MaxBatchResults == 2    \* most batch results aggregated

\* issue.id || issue.title, where "" is an absent id
issueKey(issue) == IF issue.id # "" THEN issue.id ELSE issue.title

\* existing.url || existing: the pages of the issues are objects with a url
pageKey(page) == page.url

\* The merge of affected pages that adds every page of the repeated issue.
mergePagesAll(existingPages, pages) == existingPages \o pages

\* The pages of a repeated issue that the existing issue does not have yet
\* are added to it.
mergePages(existingPages, pages) ==
    LET isNew(page) == \A k \in DOMAIN existingPages :
                           pageKey(existingPages[k]) # pageKey(page)
    IN  existingPages \o SelectSeq(pages, isNew)

\* One step of batch.issues.performance.forEach (and of the same loop over
\* batch.issues.seo): the aggregated issues after issue.
aggregateIssue(aggregated, issue) ==
    IF \A k \in DOMAIN aggregated : issueKey(aggregated[k]) # issueKey(issue)
    THEN Append(aggregated, issue)
    ELSE LET at == CHOOSE k \in DOMAIN aggregated :
                       /\ issueKey(aggregated[k]) = issueKey(issue)
                       /\ \A j \in 1..(k - 1) : issueKey(aggregated[j]) # issueKey(issue)
         IN  [aggregated EXCEPT ![at].affectedPages = mergePages(@, issue.affectedPages)]

RECURSIVE aggregateIssues(_, _)
aggregateIssues(aggregated, issues) ==
    IF issues = <<>> THEN aggregated
    ELSE aggregateIssues(aggregateIssue(aggregated, Head(issues)), Tail(issues))

\* The issues of a kind after all batches.
RECURSIVE aggregateBatches(_, _, _)
aggregateBatches(aggregated, batchList, kind) ==
    IF batchList = <<>> THEN aggregated
    ELSE aggregateBatches(aggregateIssues(aggregated, Head(batchList).issues[kind]),
                          Tail(batchList), kind)

\* The stable sort by impact, highest first.
sortByImpact(issues) ==
    LET high(x) == x.impact = "High"
        medium(x) == x.impact = "Medium"
        low(x) == x.impact = "Low"
        other(x) == x.impact \notin {"High", "Medium", "Low"}
    IN  SelectSeq(issues, high) \o SelectSeq(issues, medium)
            \o SelectSeq(issues, low) \o SelectSeq(issues, other)

RECURSIVE allPageResults(_)
allPageResults(batchList) ==
    IF batchList = <<>> THEN <<>>
    ELSE Head(batchList).pageResults \o allPageResults(Tail(batchList))

RECURSIVE totalOf(_, _)
totalOf(pages, field) ==
    IF pages = <<>> THEN 0 ELSE Head(pages)[field] + totalOf(Tail(pages), field)

\* Math.round(total / pageCount), 0 without pages
averageScore(pages, field) ==
    IF pages = <<>> THEN 0
    ELSE (2 * totalOf(pages, field) + Len(pages)) \div (2 * Len(pages))

getGrade(score) ==
    IF score >= 90 THEN "A+"
    ELSE IF score >= 80 THEN "A"
    ELSE IF score >= 70 THEN "B"
    ELSE IF score >= 60 THEN "C"
    ELSE IF score >= 50 THEN "D"
    ELSE "F"

\* aggregateResults for a list that is not empty.
aggregateResults(batchList) ==
    IF Len(batchList) = 1 THEN batchList[1]
    ELSE LET pages == allPageResults(batchList)
         IN  [summary |->
                 [totalPages |-> Len(pages),
                  overallPerformanceScore |-> averageScore(pages, "performanceScore"),
                  overallSeoScore |-> averageScore(pages, "seoScore"),
                  performanceGrade |-> getGrade(averageScore(pages, "performanceScore")),
                  seoGrade |-> getGrade(averageScore(pages, "seoScore"))],
              pageResults |-> pages,
              issues |->
                 [performance |-> sortByImpact(aggregateBatches(<<>>, batchList, "performance")),
                  seo |-> sortByImpact(aggregateBatches(<<>>, batchList, "seo"))]]

\* An issue as groupIssuesByType of the evaluator builds it.
PageIssue(id, title, impact, urls) ==
    [id |-> id, title |-> title, impact |-> impact,
     affectedPages |-> [k \in DOMAIN urls |-> [url |-> urls[k]]],
     occurrences |-> Len(urls)]

IssuesOn(id, title, impact, urlLists) ==
    {<<>>} \cup {<<PageIssue(id, title, impact, urls)>> : urls \in urlLists}

PageResult(pageUrl, performanceScore, seoScore) ==
    [url |-> pageUrl, performanceScore |-> performanceScore, seoScore |-> seoScore]

\* The result of the audit of a batch of the given pages: each issue is
\* there once, with some of the pages, each once.
BatchResultsOf(pages, urlLists) ==
    { [summary |-> [totalPages |-> Len(pages)],
       pageResults |-> pages,
       issues |-> [performance |-> lcp \o css, seo |-> meta]] :
        lcp \in IssuesOn("largest-contentful-paint", "Largest Contentful Paint", "High", urlLists),
        css \in IssuesOn("unused-css-rules", "Reduce unused CSS", "Low", urlLists),
        meta \in IssuesOn("", "Document does not have a meta description", "Medium", urlLists) }

BatchResults ==
    BatchResultsOf(<<PageResult("https://a.example/", 95, 80)>>,
                   {<<"https://a.example/">>})
    \cup BatchResultsOf(<<PageResult("https://a.example/", 95, 80),
                          PageResult("https://a.example/about", 40, 85)>>,
                        {<<"https://a.example/">>,
                         <<"https://a.example/", "https://a.example/about">>})

InitAggregate ==
    /\ input \in SeqsUpTo(BatchResults, MaxBatchResults)
    /\ EvalIdle
    /\ pc = "aggregateResults"
    /\ outcome = "none"
    /\ resAlerts = <<>>
    /\ result = <<>>

\* aggregateResults(input) throws: there are no batch results.
AggregateNothing ==
    /\ pc = "aggregateResults"
    /\ input = <<>>
    /\ pc' = "aggregated"
    /\ outcome' = "raised"
    /\ UNCHANGED <<result, resAlerts>>
    /\ EvalIdleRest

\* aggregateResults(input) returns.
ApplyAggregateResults ==
    /\ pc = "aggregateResults"
    /\ input # <<>>
    /\ result' = <<aggregateResults(input)>>
    /\ pc' = "aggregated"
    /\ outcome' = "returned"
    /\ UNCHANGED resAlerts
    /\ EvalIdleRest

NextAggregate ==
    \/ AggregateNothing
    \/ ApplyAggregateResults

SpecAggregate == InitAggregate /\ [][NextAggregate]_vars

\* ================================================================ claims
Range(s) == {s[k] : k \in 1..Len(s)}

RECURSIVE Flatten(_)
Flatten(ss) == IF ss = <<>> THEN <<>> ELSE Head(ss) \o Flatten(Tail(ss))

scanUrlsOf(results) == [k \in 1..Len(results) |-> results[k].scanUrl]

NotExcluded(u) == ~isExcluded(u, input.excludeUrls)

\* The URLs of the returned batches among the first n, in order, without
\* the excluded ones.
RECURSIVE ReturnedUrls(_)
ReturnedUrls(n) ==
    IF n = 0 THEN <<>>
    ELSE ReturnedUrls(n - 1)
         \o (IF batchStatus[n] = "returned"
             THEN SelectSeq(batches[n], NotExcluded) ELSE <<>>)

Validated == pc # "validate" /\ validateInput(input)
AllBatchesFinished ==
    \A k \in 1..Len(batchStatus) : batchStatus[k] \in {"returned", "raised"}
AllBatchesRaised ==
    /\ Len(batchStatus) > 0
    /\ \A k \in 1..Len(batchStatus) : batchStatus[k] = "raised"

\* C1: when every batch has raised, the run ends by raising an error and
\* returns no report.
C1_AllBatchesFailedRaises ==
    (pc = "done" /\ Validated /\ AllBatchesRaised)
        => (outcome = "raised" /\ report = <<>>)

\* C2: when shutdown() returns, a process the client holds that is still
\* alive has been sent a termination signal, on every path of shutdown().
C2_ShutdownSignalsHeldProcess ==
    (pc = "shutdownDone" /\ zapProcess # 0 /\ procs[zapProcess].state # "dead")
        => procs[zapProcess].killed

\* C3: in every validated run shutdown() is called exactly once, after the
\* last batch has finished and before the report is formatted or returned.
C3_ShutdownExactlyOnce ==
    /\ shutdownCalls <= 1
    /\ shutdownCalls = 1 => (Validated /\ i = Len(batches) /\ AllBatchesFinished)
    /\ (Validated /\ pc \in {"grace", "termWait", "shutdownDone", "done"})
           => shutdownCalls = 1
    /\ (report # <<>> \/ outcome = "returned") => shutdownCalls = 1

C3_Witness ==
    /\ pc = "done"
    /\ outcome = "returned"
    /\ shutdownCalls = 1
    /\ \E k \in 1..Len(batchStatus) : batchStatus[k] = "raised"
    /\ \E k \in 1..Len(batchStatus) : batchStatus[k] = "returned"

\* C4: no control-API request is issued to the engine after shutdown() has
\* begun.
C4_NoRequestAfterShutdown == lateRequests = 0

\* C5: at most one engine process spawned by the client is alive at any
\* moment.
C5_OneEngineProcess ==
    Cardinality({p \in 1..Len(procs) : procs[p].state # "dead"}) <= 1

InProcessBatchLoop == pc \in {"urls", "scan"} \/ (pc = "startWait" /\ retTo = "scan")

\* C6: in processBatch a failed URL yields a placeholder (success false, no
\* alerts, the captured message) and the loop goes on: the batch is still
\* running and the outcomes so far are those of the URLs visited so far
\* that are not excluded, in order.
C6_UrlFailureIsolated ==
    /\ \A k \in 1..Len(batchResults) :
           ~batchResults[k].success =>
               /\ batchResults[k].alerts = <<>>
               /\ batchResults[k].error \in {StartTimeoutMsg, RequestFailedMsg}
    /\ InProcessBatchLoop =>
           /\ batchStatus[i + 1] = "running"
           /\ scanUrlsOf(batchResults) = SelectSeq(SubSeq(batch, 1, urlIdx), NotExcluded)

C6_Witness ==
    /\ pc = "urls"
    /\ Len(batchResults) = 2
    /\ ~batchResults[1].success
    /\ batchResults[2].success
    /\ batchResults[2].alerts # <<>>

IsPrefix(s, t) == Len(s) <= Len(t) /\ SubSeq(t, 1, Len(s)) = s

\* The results are those of the returned batches, and every batch is
\* finished when the batch loop is left.
C7_ResultsOfReturnedBatches ==
    /\ scanUrlsOf(allResults) = ReturnedUrls(i)
    /\ (Validated /\ pc \in {"grace", "termWait", "shutdownDone", "done"})
           => (i = Len(batches) /\ AllBatchesFinished)

\* C7: when a batch raises, the later batches are still processed and the
\* outcomes collected before are kept: the results are those of the
\* returned batches, every batch is finished when the loop is left, and
\* allResults only ever grows at its end.
C7_BatchFailureIsolated ==
    /\ []C7_ResultsOfReturnedBatches
    /\ [][IsPrefix(allResults, allResults')]_vars

C7_Witness ==
    /\ pc = "done"
    /\ batchStatus = <<"raised", "returned">>
    /\ allResults # <<>>

\* C8: with no excluded URL, the report's totalScans equals successfulScans
\* plus failedScans and equals the number of unique target URLs.
C8_EveryUrlAccounted ==
    (pc = "done" /\ outcome = "returned" /\ input.excludeUrls = {}) =>
        LET m == report[1].metadata
        IN  /\ m.totalScans = m.successfulScans + m.failedScans
            /\ m.totalScans = Len(uniqueUrls)

\* C9: batches run one after the other: a batch is started only when every
\* batch before it has returned or raised, so at most one is in flight.
C9_BatchesSequential ==
    /\ Cardinality({k \in 1..Len(batchStatus) : batchStatus[k] = "running"}) <= 1
    /\ \A a, b \in 1..Len(batchStatus) :
           (a < b /\ batchStatus[b] # "pending")
               => batchStatus[a] \in {"returned", "raised"}

C9_Witness ==
    /\ Len(batchStatus) = 2
    /\ batchStatus[2] = "running"
    /\ pc = "scan"

\* C10: createBatches yields ceil(n/b) batches, all of b URLs except the
\* last, which has 1 to b; the batches in order concatenate to the input,
\* and every URL is in exactly one batch.
C10_CreateBatchesPartitions ==
    pc = "batched" =>
        LET n == Len(input.urls)
            b == input.batchSize
            m == Len(batches)
        IN  /\ m = (n + b - 1) \div b
            /\ \A k \in 1..(m - 1) : Len(batches[k]) = b
            /\ m > 0 => (Len(batches[m]) >= 1 /\ Len(batches[m]) <= b)
            /\ Flatten(batches) = input.urls
            /\ \A u \in Range(input.urls) :
                   Cardinality({k \in 1..m : u \in Range(batches[k])}) = 1

C10_Witness ==
    /\ pc = "batched"
    /\ Len(input.urls) = 3
    /\ input.batchSize = 2
    /\ Len(batches) = 2
    /\ Len(batches[1]) = 2
    /\ Len(batches[2]) = 1

\* C11: in waitForActiveScanCompletion, once progress has passed the minimum
\* threshold (a plateau at 45% is such a case) the loop never leaves through
\* rule 2: it keeps polling while stuckCounter is between the low and the high
\* threshold, leaves through rule 3 exactly when stuckCounter reaches twice
\* the low threshold, and activeScan then returns the handle without raising.
C11_PlateauEndsByRule3 ==
    (waitLoop = "active" /\ significantProgress) =>
        /\ exitRule # "rule2"
        /\ (/\ stuckCounter >= stuckThreshold
            /\ stuckCounter < 2 * stuckThreshold
            /\ progress < 100
            /\ attempts < activeMaxAttempts(fast)) => pc = "poll"
        /\ exitRule = "rule3" <=> stuckCounter >= 2 * stuckThreshold
        /\ stuckCounter <= 2 * stuckThreshold
        /\ pc = "done" => outcome = "returned"

C11_Witness ==
    /\ waitLoop = "active"
    /\ progress = 45
    /\ stuckCounter = 2 * stuckThreshold
    /\ exitRule = "rule3"
    /\ pc = "done"
    /\ outcome = "returned"

\* C12: in waitForActiveScanCompletion, while the reported statuses are
\* strictly increasing, stuckCounter is 0 after every poll that reports a
\* value other than the one the loop held (it is 1 only after a first report
\* of 0, the value the loop starts with), no stuck rule ends the loop, and
\* the poll that reports 100 ends it through rule 1.
C12_IncreasingEndsByRule1 ==
    (waitLoop = "active" /\ shape = "increasing") =>
        /\ stuckCounter = 0 \/ (stuckCounter = 1 /\ progress = 0)
        /\ exitRule \notin {"rule2", "rule3"}
        /\ progress = 100 => (pc # "poll" /\ exitRule = "rule1")

C12_Witness ==
    /\ waitLoop = "active"
    /\ shape = "increasing"
    /\ polls >= 3
    /\ progress = 100
    /\ exitRule = "rule1"
    /\ pc = "done"
    /\ outcome = "returned"

maxPolls ==
    CASE waitLoop = "active" -> activeMaxAttempts(fast)
      [] waitLoop = "spider" -> spiderMaxAttempts(fast)
      [] OTHER -> passiveMaxAttempts

\* C13: each progress-wait loop (active scan, spider, passive settle) issues
\* at most its fixed maximum number of status calls, whatever the calls
\* report and whichever of them fail: it has stopped polling by the time the
\* maximum is reached, and having polled it returns normally.
C13_WaitLoopsBounded ==
    waitLoop \in Loops =>
        /\ polls <= maxPolls
        /\ pc = "poll" => polls < maxPolls
        /\ (pc = "done" /\ polls > 0) => outcome = "returned"

C13_Witness ==
    /\ waitLoop = "active"
    /\ ~fast
    /\ polls = activeMaxAttempts(fast)
    /\ exitRule = "rule4"
    /\ progress < 100
    /\ pc = "done"
    /\ outcome = "returned"

AlertCalls == {AlertCallOrder[k] : k \in 1..Len(AlertCallOrder)}

IsAlertCall(c) == c \in AlertCalls

\* C14: getResults never raises; whichever of its engine calls fail, it
\* returns a record with an alerts list, a discoveredUrls list, a passive
\* record count and a timestamp, where alerts is empty when every alert call
\* failed, discoveredUrls is empty when the spider-results call failed, and
\* the count is 0 when the passive-records call failed.
C14_GetResultsNeverRaises ==
    calls # <<>> =>
        /\ outcome # "raised"
        /\ pc = "done" =>
             /\ Len(result) = 1
             /\ DOMAIN result[1] =
                  {"alerts", "discoveredUrls", "passiveRecords", "scanTimestamp"}
             /\ result[1].alerts \in Seq({"alert"})
             /\ result[1].discoveredUrls \in Seq({"found"})
             /\ result[1].passiveRecords \in Nat
             /\ (Range(SelectSeq(calls, IsAlertCall)) \subseteq failed)
                  => result[1].alerts = <<>>
             /\ "spiderResults" \in failed => result[1].discoveredUrls = <<>>
             /\ "passiveRecords" \in failed => result[1].passiveRecords = 0

C14_Witness ==
    /\ pc = "done"
    /\ outcome = "returned"
    /\ failed = {"bulk", "summary", "riskHigh", "riskMedium", "riskLow",
                 "spiderResults", "passiveRecords"}
    /\ result[1].alerts = <<>>
    /\ result[1].discoveredUrls = <<>>

\* C15: the alert calls of getResults are issued in the order bulk, summary,
\* per-risk (High, Medium, Low), each at most once; the summary call is
\* issued exactly when the bulk call failed and the per-risk calls exactly
\* when the bulk and the summary call both failed, so a bulk call that
\* answers with zero alerts is followed by no other alert call.
C15_AlertTiersInOrder ==
    calls # <<>> =>
        /\ IsPrefix(SelectSeq(calls, IsAlertCall), AlertCallOrder)
        /\ "summary" \in Range(calls) => "bulk" \in failed
        /\ ("bulk" \in failed /\ pc # "summary") => "summary" \in Range(calls)
        /\ "riskHigh" \in Range(calls) => {"bulk", "summary"} \subseteq failed
        /\ ({"bulk", "summary"} \subseteq failed
              /\ pc \notin {"riskHigh", "riskMedium", "riskLow"})
             => {"riskHigh", "riskMedium", "riskLow"} \subseteq Range(calls)
        /\ "bulk" \notin failed => SelectSeq(calls, IsAlertCall) = <<"bulk">>

C15_Witness ==
    /\ pc = "done"
    /\ SelectSeq(calls, IsAlertCall) = <<"bulk">>
    /\ failed = {}
    /\ result[1].alerts = <<>>

keysOf(list) == [k \in 1..Len(list) |-> list[k].key]

\* C16: configureZAP passes every setting of its list (the performance
\* settings, then those of the mode) to setAdvancedConfig once, in list
\* order, whichever engine calls fail, and returns without raising; for an
\* unmapped key the generic endpoints are tried in order and none is tried
\* after one of them answered.
C16_ConfigureBestEffort ==
    attempted # <<>> =>
        /\ outcome # "raised"
        /\ IsPrefix(attempted, keysOf(configList(fast)))
        /\ Len(attempted) = configIdx + (IF pc = "generic" THEN 1 ELSE 0)
        /\ pc = "done" => attempted = keysOf(configList(fast))
        /\ \A k \in 1..Len(genericLog) :
             /\ configList(fast)[genericLog[k].setting].key \notin configMappings
             /\ k > 1 /\ genericLog[k - 1].setting = genericLog[k].setting =>
                  /\ ~genericLog[k - 1].ok
                  /\ \E e \in 1..(Len(genericEndpoints) - 1) :
                       /\ genericLog[k - 1].endpoint = genericEndpoints[e]
                       /\ genericLog[k].endpoint = genericEndpoints[e + 1]
             /\ (k = 1 \/ genericLog[k - 1].setting # genericLog[k].setting) =>
                  genericLog[k].endpoint = genericEndpoints[1]

C16_Witness ==
    /\ pc = "done"
    /\ outcome = "returned"
    /\ fast
    /\ warnings >= 2
    /\ attempted = keysOf(configList(TRUE))
    /\ \E k \in 1..Len(genericLog) :
         genericLog[k].ok /\ genericLog[k].endpoint = genericEndpoints[2]
    /\ \E k \in 1..Len(genericLog) :
         ~genericLog[k].ok /\ genericLog[k].endpoint = genericEndpoints[3]

\* C17: when validateInput rejects the input, runSecurityAudit raises at
\* once: no ZAPClient is created, no engine process is spawned, no batch is
\* formed or scanned, shutdown is not called and no report is built.
C17_InvalidInputRaisesAtOnce ==
    ~validateInput(input) =>
        /\ pc \in {"validate", "done"}
        /\ pc = "done" => outcome = "raised"
        /\ ~clientCreated
        /\ procs = <<>>
        /\ zapProcess = 0
        /\ batches = <<>>
        /\ allResults = <<>>
        /\ shutdownCalls = 0
        /\ lateRequests = 0
        /\ report = <<>>

C17_Witness ==
    /\ pc = "done"
    /\ outcome = "raised"
    /\ ~validateInput(input)
    /\ ~clientCreated

isArrayOfStrings(v) ==
    v.t = "array" /\ \A k \in 1..Len(v.items) : v.items[k].t = "string"

absentOr(v, ok) == v.t = "undefined" \/ ok

inRange(v, lo, hi) == v.t = "integer" /\ v.n >= lo /\ v.n <= hi

\* The input schema: endpoints is an array of 1 to 50 http(s) URL strings,
\* and each option is absent or of its type and in its range.
SchemaOk(in) ==
    /\ in.t = "object"
    /\ isArrayOfStrings(in.endpoints)
    /\ Len(in.endpoints.items) \in 1..MaxAllowedEndpoints
    /\ \A k \in 1..Len(in.endpoints.items) : isValidUrl(in.endpoints.items[k].s)
    /\ absentOr(in.outputFile, in.outputFile.t = "string")
    /\ absentOr(in.options,
         /\ in.options.t = "object"
         /\ absentOr(in.options.maxDepth,
                     inRange(in.options.maxDepth, MinMaxDepth, MaxMaxDepth))
         /\ absentOr(in.options.timeout,
                     inRange(in.options.timeout, MinTimeout, MaxTimeout))
         /\ absentOr(in.options.batchSize,
                     inRange(in.options.batchSize, MinBatchSize, MaxAllowedBatchSize))
         /\ absentOr(in.options.passiveScanOnly,
                     in.options.passiveScanOnly.t = "boolean")
         /\ absentOr(in.options.skipCrawling,
                     in.options.skipCrawling.t = "boolean")
         /\ absentOr(in.options.excludeUrls,
                     isArrayOfStrings(in.options.excludeUrls))
         /\ absentOr(in.options.endpoints,
                     isArrayOfStrings(in.options.endpoints)))

\* C18: validateInput raises exactly for the inputs that break the schema:
\* it raises when a field is of the wrong type or out of range, and returns
\* when every field is well typed and in range.
C18_ValidateInputChecksSchema ==
    pc = "validated" => (outcome = "raised" <=> ~SchemaOk(input))

\* C19: with options.passiveScanOnly set, no active scan is started for any
\* URL, in crawl mode and in endpoint-only mode alike.
C19_PassiveOnlyStartsNoActiveScan ==
    (DOMAIN activeCount # {} /\ input.passiveScanOnly) =>
        \A u \in DOMAIN activeCount : activeCount[u] = 0

\* C20: no engine operation (accessUrl, spider scan, active scan) is issued
\* for a URL that contains a pattern of options.excludeUrls, be it a target
\* of the batch or one of options.endpoints.
C20_ExcludedUrlUntouched ==
    \A u \in DOMAIN accessCount :
        isExcluded(u, input.excludeUrls) =>
            /\ accessCount[u] = 0
            /\ spiderCount[u] = 0
            /\ activeCount[u] = 0
\* ---------------------------------------------------------------- C21
\* C21: for every list of issues, the overallSecurityScore of
\* calculateSecuritySummary is 100 - 20*high - 10*medium - 5*low when that is
\* positive and 0 otherwise, where high, medium and low are the counts of the
\* risk distribution, which are the numbers of issues of each risk; so the
\* score is an integer of 0..100 fixed by the risk distribution alone.
C21_Count(risk) == Cardinality({k \in 1..Len(input) : input[k].risk = risk})

C21_Penalty(high, medium, low) == 20 * high + 10 * medium + 5 * low

C21_ScoreFromRiskDistribution ==
    pc = "summarised" =>
        LET summary == result[1]
            dist == summary.riskDistribution
            penalty == C21_Penalty(dist.high, dist.medium, dist.low)
        IN  /\ dist.high = C21_Count("High")
            /\ dist.medium = C21_Count("Medium")
            /\ dist.low = C21_Count("Low")
            /\ summary.overallSecurityScore \in 0..100
            /\ penalty <= 100 => summary.overallSecurityScore = 100 - penalty
            /\ penalty > 100 => summary.overallSecurityScore = 0

\* The penalties exceed 100 and the score is 0.
C21_Witness ==
    /\ pc = "summarised"
    /\ C21_Penalty(C21_Count("High"), C21_Count("Medium"), C21_Count("Low")) > 100
    /\ result[1].overallSecurityScore = 0

\* ---------------------------------------------------------------- C22
\* C22: for every risk and confidence among High, Medium, Low and
\* Informational, the impactScore of the Issue processAlert builds is the
\* product of the base score of the risk (9, 6, 3, 1) and the multiplier of
\* the confidence (1.0, 0.8, 0.6, 0.4) rounded to the nearest integer, and it
\* lies in 0..10.  The product is held in tenths; score is its rounding when
\* score - 0.5 <= product < score + 0.5.
C22_Base == [High |-> 9, Medium |-> 6, Low |-> 3, Informational |-> 1]

C22_Tenths == [High |-> 10, Medium |-> 8, Low |-> 6, Informational |-> 4]

C22_IsRounding(score, tenths) ==
    /\ 10 * score - 5 <= tenths
    /\ tenths < 10 * score + 5

C23_Has(name, part) == strIncludes(toLowerCase(name), part)

C23_Rules(name) ==
    << [hit |-> C23_Has(name, <<"x", "s", "s">>) \/ C23_Has(name, <<"c", "r", "o", "s", "s", "-", "s", "i", "t", "e", " ", "s", "c", "r", "i", "p", "t", "i", "n", "g">>),
        effort |-> "High"],
       [hit |-> C23_Has(name, <<"i", "n", "j", "e", "c", "t", "i", "o", "n">>), effort |-> "High"],
       [hit |-> C23_Has(name, <<"h", "e", "a", "d", "e", "r">>)
                /\ (C23_Has(name, <<"m", "i", "s", "s", "i", "n", "g">>) \/ C23_Has(name, <<"n", "o", "t", " ", "s", "e", "t">>)),
        effort |-> "Low"],
       [hit |-> C23_Has(name, <<"c", "o", "o", "k", "i", "e">>), effort |-> "Low"],
       [hit |-> C23_Has(name, <<"i", "n", "f", "o", "r", "m", "a", "t", "i", "o", "n", " ", "d", "i", "s", "c", "l", "o", "s", "u", "r", "e">>) \/ C23_Has(name, <<"l", "e", "a", "k", "s">>),
        effort |-> "Low"] >>

C23_RiskDefault == [High |-> "High", Medium |-> "Medium", Low |-> "Low", Informational |-> "Low"]

C23_Resolved(name, risk, effort) ==
    LET rules == C23_Rules(name)
        hits == {k \in DOMAIN rules : rules[k].hit}
    IN  IF name \in DOMAIN EFFORT_MAPPING THEN effort = EFFORT_MAPPING[name]
        ELSE IF hits # {}
            THEN effort = rules[CHOOSE k \in hits : \A j \in hits : k <= j].effort
        ELSE risk \in Risks => effort = C23_RiskDefault[risk]

C24_Uris(alert) == [k \in DOMAIN alert.instances |-> alert.instances[k].uri]

C24_OnOneOrigin(alert) ==
    LET uris == C24_Uris(alert)
    IN  /\ uris # <<>>
        /\ IsInjective(uris)
        /\ \A k \in DOMAIN uris :
               parsesAsURL(uris[k]) /\ websiteOf(uris[k]) = websiteOf(uris[1])

C24_RiskKey == [High |-> "high", Medium |-> "medium", Low |-> "low", Informational |-> "informational"]

C24_CountOf(summary, key) == IF key \in DOMAIN summary THEN summary[key] ELSE 0

C24_OneFindingOneIssue ==
    (pc = "formatted" /\ Len(resAlerts) = 1 /\ C24_OnOneOrigin(resAlerts[1])) =>
        LET alert == resAlerts[1]
            uris == C24_Uris(alert)
            websites == result[1].websites
        IN  /\ result[1].totalIssues = 1
            /\ Len(websites) = 1
            /\ websites[1].website = websiteOf(uris[1])
            /\ Len(websites[1].issues) = 1
            /\ websites[1].issues[1].occurrences = Len(uris)
            /\ Len(websites[1].issues[1].affectedUrls) = Len(uris)
            /\ {websites[1].issues[1].affectedUrls[k].url : k \in DOMAIN uris} = Range(uris)
            /\ websites[1].summary.totalIssues = 1
            /\ C24_CountOf(websites[1].summary, C24_RiskKey[alert.risk]) = 1
            /\ ( /\ alert.name = <<"S", "Q", "L", " ", "I", "n", "j", "e", "c", "t", "i", "o", "n">>
                 /\ alert.risk = "High"
                 /\ alert.confidence = "High"
                 /\ uris = <<<<"h", "t", "t", "p", "s", ":", "/", "/", "a", ".", "e", "x", "a", "m", "p", "l", "e", "/", "x">>, <<"h", "t", "t", "p", "s", ":", "/", "/", "a", ".", "e", "x", "a", "m", "p", "l", "e", "/", "y">>>> ) =>
                   /\ websites[1].website = <<"h", "t", "t", "p", "s", ":", "/", "/", "a", ".", "e", "x", "a", "m", "p", "l", "e">>
                   /\ websites[1].issues[1].occurrences = 2
                   /\ websites[1].issues[1].impactScore = 9
                   /\ websites[1].issues[1].effort = "High"
                   /\ Len(websites[1].issues[1].affectedUrls) = 2
                   /\ C24_CountOf(websites[1].summary, "high") = 1

\* The scenario of the claim has been processed.
C24_Witness ==
    /\ pc = "formatted"
    /\ Len(resAlerts) = 1
    /\ resAlerts[1].name = <<"S", "Q", "L", " ", "I", "n", "j", "e", "c", "t", "i", "o", "n">>
    /\ C24_Uris(resAlerts[1]) = <<<<"h", "t", "t", "p", "s", ":", "/", "/", "a", ".", "e", "x", "a", "m", "p", "l", "e", "/", "x">>, <<"h", "t", "t", "p", "s", ":", "/", "/", "a", ".", "e", "x", "a", "m", "p", "l", "e", "/", "y">>>>
    /\ result[1].websites[1].issues[1].occurrences = 2
    /\ C24_CountOf(result[1].websites[1].summary, "high") = 1

\* ---------------------------------------------------------------- C25
\* C25: every Issue that groupIssuesByWebsite has placed in a WebsiteReport
\* has at least one affected URL whose origin (scheme and host) is the
\* origin of that WebsiteReport.
C25_OriginIs(u, website) == parsesAsURL(u) /\ websiteOf(u) = website

C25_IssueHasUrlOfItsWebsite ==
    pc = "formatted" =>
        \A w \in DOMAIN result[1].websites :
            \A n \in DOMAIN result[1].websites[w].issues :
                LET issue == result[1].websites[w].issues[n]
                IN  \E k \in DOMAIN issue.affectedUrls :
                        C25_OriginIs(issue.affectedUrls[k].url, result[1].websites[w].website)

\* A finding with instances on two origins has been placed in the reports
\* of both, and a finding without any URL in the report of the scan target.
C25_Witness ==
    /\ pc = "formatted"
    /\ Len(resAlerts) = 2
    /\ C24_Uris(resAlerts[1]) = <<UrlAX, UrlBX>>
    /\ resAlerts[2].url = <<>>
    /\ resAlerts[2].pluginId # resAlerts[1].pluginId
    /\ Len(result[1].websites) = 2
    /\ \E w \in DOMAIN result[1].websites : Len(result[1].websites[w].issues) = 2

\* ---------------------------------------------------------------- C26
\* C26: an Issue with affected URLs on several origins has a copy in the
\* WebsiteReport of each of these origins, and the copy under an origin holds
\* only affected URLs of that origin: none of the same host under another
\* scheme, none of a host that extends the origin string.
C26_CopyKeepsOnlyItsOrigin ==
    pc = "formatted" =>
        /\ \A a \in DOMAIN resAlerts :
               \A k \in DOMAIN resAlerts[a].instances :
                   LET uri == resAlerts[a].instances[k].uri
                   IN  parsesAsURL(uri) =>
                           \E w \in DOMAIN result[1].websites :
                               /\ result[1].websites[w].website = websiteOf(uri)
                               /\ \E n \in DOMAIN result[1].websites[w].issues :
                                      result[1].websites[w].issues[n].id
                                          = <<"zap-", resAlerts[a].pluginId>>
        /\ \A w \in DOMAIN result[1].websites :
               \A n \in DOMAIN result[1].websites[w].issues :
                   LET issue == result[1].websites[w].issues[n]
                   IN  \A k \in DOMAIN issue.affectedUrls :
                           C25_OriginIs(issue.affectedUrls[k].url, result[1].websites[w].website)

\* ---------------------------------------------------------------- C27
\* C27: the issues of a report are unique by id: however many outcomes of
\* the run hold a finding, totalIssues is the number of different ids, and
\* the risk distribution counts each id once.
C27_Ids == {<<"zap-", resAlerts[a].pluginId>> : a \in DOMAIN resAlerts}

C27_IdsOfRisk(risk) ==
    {<<"zap-", resAlerts[a].pluginId>> : a \in {b \in DOMAIN resAlerts : resAlerts[b].risk = risk}}

C27_IssuesUniqueById ==
    pc = "formatted" =>
        /\ result[1].totalIssues = Cardinality(C27_Ids)
        /\ result[1].summary.totalIssues = Cardinality(C27_Ids)
        /\ result[1].summary.riskDistribution.high = Cardinality(C27_IdsOfRisk("High"))
        /\ result[1].summary.riskDistribution.medium = Cardinality(C27_IdsOfRisk("Medium"))
        /\ result[1].summary.riskDistribution.low = Cardinality(C27_IdsOfRisk("Low"))
        /\ result[1].summary.riskDistribution.informational
               = Cardinality(C27_IdsOfRisk("Informational"))

\* ---------------------------------------------------------------- C28
\* C28: in every Issue of every WebsiteReport, no two entries of affectedUrls
\* have the same URL.
C28_NoUrlTwice ==
    pc = "formatted" =>
        \A w \in DOMAIN result[1].websites :
            \A n \in DOMAIN result[1].websites[w].issues :
                LET urls == result[1].websites[w].issues[n].affectedUrls
                IN  \A j, k \in DOMAIN urls : urls[j].url = urls[k].url => j = k

\* ---------------------------------------------------------------- C29
\* C29: when a finding whose id an earlier alert of the run had already is
\* seen again, none of its URLs is lost: each of them is among the affected
\* URLs of the Issue of that id in the WebsiteReport of the URL's origin.
C29_UrlsOfAlert(alert) ==
    IF alert.instances # <<>> THEN Range(C24_Uris(alert)) ELSE {alert.url}

C29_RepeatedSightingMerged ==
    pc = "formatted" =>
        \A a \in DOMAIN resAlerts :
            (\E b \in 1..(a - 1) : resAlerts[b].pluginId = resAlerts[a].pluginId) =>
                \A u \in {v \in C29_UrlsOfAlert(resAlerts[a]) : parsesAsURL(v)} :
                    \E w \in DOMAIN result[1].websites :
                        /\ result[1].websites[w].website = websiteOf(u)
                        /\ \E n \in DOMAIN result[1].websites[w].issues :
                               LET issue == result[1].websites[w].issues[n]
                               IN  /\ issue.id = <<"zap-", resAlerts[a].pluginId>>
                                   /\ \E k \in DOMAIN issue.affectedUrls :
                                          issue.affectedUrls[k].url = u
\* ---------------------------------------------------------------- C30
\* C30: aggregateResults of a batch result and further copies of it gives as
\* many performance issues and as many SEO issues as the batch result has,
\* and for each issue of the batch result one issue with the same affected
\* pages, none of them twice, and the same occurrences.
C30_PageUrls(issue) == {issue.affectedPages[k].url : k \in DOMAIN issue.affectedPages}

C30_SameIssue(issue, aggregated) ==
    /\ aggregated.id = issue.id
    /\ aggregated.title = issue.title
    /\ C30_PageUrls(aggregated) = C30_PageUrls(issue)
    /\ Len(aggregated.affectedPages) = Cardinality(C30_PageUrls(issue))
    /\ aggregated.occurrences = issue.occurrences

C30_SameIssues(issues, aggregated) ==
    /\ Len(aggregated) = Len(issues)
    /\ \A k \in DOMAIN issues :
           \E j \in DOMAIN aggregated : C30_SameIssue(issues[k], aggregated[j])

C30_Repeated == Len(input) >= 2 /\ \A k \in DOMAIN input : input[k] = input[1]

C30_AggregateRepeatedBatch ==
    (pc = "aggregated" /\ C30_Repeated) =>
        /\ C30_SameIssues(input[1].issues.performance, result[1].issues.performance)
        /\ C30_SameIssues(input[1].issues.seo, result[1].issues.seo)

\* A batch result with an issue on two pages has been aggregated with its copy.
C30_Witness ==
    /\ pc = "aggregated"
    /\ C30_Repeated
    /\ Len(input[1].issues.performance) = 2
    /\ Len(input[1].issues.seo) = 1
    /\ \E k \in DOMAIN result[1].issues.performance :
           Len(result[1].issues.performance[k].affectedPages) = 2
\* ---------------------------------------------------------------- C31
\* C31: the engine operations on a URL follow each other in the order
\* access, crawl, active scan, wait for the passive scan to settle, result
\* collection: the crawl starts after the access only, the active scan after
\* the crawl only, and results are collected after the passive-settle wait
\* only.
C31_OperationsInOrder ==
    [][ /\ pc' = "spider" => pc = "access"
        /\ pc' = "active" => pc = "spider"
        /\ pc' = "activeWait" => pc = "active"
        /\ pc' = "settle" => pc \in {"epAccess", "epActive"}
        /\ pc' = "collect" => pc = "settle" ]_vars

\* ---------------------------------------------------------------- C32
\* C32: in endpoint-only mode no active scan of a round starts before the
\* access of every endpoint has been attempted and has ended; the wait for
\* the passive scan starts when no active scan is in flight and, unless the
\* scan is passive-only, every endpoint has had its active scan, whatever
\* failed; results are collected after that wait only; no spider scan is
\* started.  A round is one call of endpointOnlyScan; the rounds completed
\* are the results recorded.
C32_EndpointOnly == input.skipCrawling /\ input.endpoints # <<>>

C32_Endpoints == Range(input.endpoints)

C32_Round == Len(scanResults)

C32_PhasesInOrder ==
    C32_EndpointOnly =>
        /\ \A u \in DOMAIN spiderCount : spiderCount[u] = 0
        /\ (\E e \in C32_Endpoints : activeCount[e] > C32_Round) =>
               /\ accessing = {}
               /\ \A e \in C32_Endpoints : accessCount[e] = C32_Round + 1
        /\ pc \in {"settle", "collect"} =>
               /\ inFlight = {}
               /\ \A e \in C32_Endpoints : accessCount[e] = C32_Round + 1
               /\ ~input.passiveScanOnly =>
                      \A e \in C32_Endpoints : activeCount[e] = C32_Round + 1

C32_EndpointOnlyPhases ==
    /\ []C32_PhasesInOrder
    /\ [][C32_EndpointOnly => (pc' = "collect" => pc = "settle")]_vars

\* The results of a scan of two groups of endpoints are being collected.
C32_Witness ==
    /\ C32_EndpointOnly
    /\ ~input.passiveScanOnly
    /\ Len(input.endpoints) > 3
    /\ pc = "collect"
    /\ \A e \in C32_Endpoints : activeCount[e] = C32_Round + 1

\* ---------------------------------------------------------------- C33
\* C33: never more than 3 active scans are in flight: in endpoint-only mode
\* never more than the smaller of 3 and the number of endpoints, and active
\* scans start only when none is in flight; in crawl mode never more than
\* one.  Never more than 5 accesses of endpoints are in flight.
C33_Bounded ==
    /\ Cardinality(inFlight) <= 3
    /\ Cardinality(accessing) <= 5
    /\ C32_EndpointOnly => Cardinality(inFlight) <= Len(input.endpoints)
    /\ ~C32_EndpointOnly => Cardinality(inFlight) <= 1 /\ accessing = {}

C33_BoundedConcurrency ==
    /\ []C33_Bounded
    /\ [][activeCount' # activeCount => inFlight = {}]_vars

\* The three scans of the second group are in flight.
C33_Witness ==
    /\ C32_EndpointOnly
    /\ epIdx = 3
    /\ Cardinality(inFlight) = 3

\* ---------------------------------------------------------------- C34
\* C34: in waitForActiveScanCompletion the loop is left by rule 2 exactly
\* when stuckCounter has reached the low threshold (50) and
\* significantProgress is false; significantProgress is true after every
\* poll that reported 30 or more and is never cleared, so that once it is
\* set the loop is not left by rule 2.
C34_Rule2 ==
    waitLoop = "active" =>
        /\ exitRule = "rule2" <=> (stuckCounter >= 50 /\ ~significantProgress)
        /\ progress >= 30 => significantProgress
        /\ significantProgress => exitRule \in {"none", "rule1", "rule3", "rule4"}

C34_Rule2OnlyWithoutSignificantProgress ==
    /\ []C34_Rule2
    /\ [][(waitLoop = "active" /\ significantProgress) => significantProgress']_vars

\* The scan has been stuck for 50 polls after significant progress, and the
\* loop goes on.
C34_Witness ==
    /\ waitLoop = "active"
    /\ significantProgress
    /\ stuckCounter >= 50
    /\ pc = "poll"
    /\ exitRule = "none"

\* ---------------------------------------------------------------- C35
\* startZAP's wait loop is scheduled again after every 2 s timer: a poll
\* that is due is eventually made.
SpecStartFair ==
    Spec /\ WF_vars(StartPollRunning \/ StartPollRetry \/ StartPollTimeout)

\* A poll of startZAP's wait loop is the step of the client at "startWait".
C35_Polled == pc = "startWait" /\ (pc' # pc \/ attempts' # attempts)

\* startZAP returns true to its caller.
C35_Returned ==
    /\ pc' = retTo
    /\ batchStatus' = batchStatus
    /\ batchResults' = batchResults

\* startZAP raises the start-timeout error: the batch that called it from
\* processBatch raises, the URL whose fullScan called it fails with it.
C35_TimedOut ==
    \/ retTo = "urls" /\ batchStatus'[i + 1] = "raised"
    \/ retTo # "urls" /\ batchResults' = Append(batchResults, Failed(url, StartTimeoutMsg))

\* C35: startZAP spawns an engine process only when its liveness check
\* fails; after the spawn it polls at most 30 times, returns at the first
\* poll that finds the engine live, raises the start-timeout error when
\* the 30th poll fails too, and always terminates.
C35_StartZAPBounded ==
    /\ [](pc = "startWait" => (zapProcess # 0 /\ attempts \in 0..29))
    /\ [][Len(procs') > Len(procs)
            => (~isZAPRunning /\ pc' = "startWait" /\ attempts' = 0)]_vars
    /\ [][C35_Polled
            => IF isZAPRunning THEN C35_Returned
               ELSE IF attempts < 29
                    THEN pc' = "startWait" /\ attempts' = attempts + 1
                    ELSE C35_TimedOut]_vars
    /\ (pc = "startWait") ~> (pc # "startWait")

\* The spawned engine has failed 29 polls and is still down.
C35_Witness ==
    /\ pc = "startWait"
    /\ zapProcess # 0
    /\ attempts = 29
    /\ ~isZAPRunning

\* ---------------------------------------------------------------- C36
C36_Summarised == pc \in {"recommend", "recommended"}

C36_Titles == {input[k].title : k \in DOMAIN input}

\* The highest impact score among the issues with the title.
C36_Best(title) ==
    LET scores == {input[k].impactScore : k \in {j \in DOMAIN input : input[j].title = title}}
    IN  CHOOSE s \in scores : \A other \in scores : other <= s

\* C36: summary.topVulnerabilities has at most 10 entries, of pairwise
\* distinct titles, in the order of non-increasing impact; each entry has
\* the highest impact score among the issues of its title, and the risk
\* and effort of an issue of that title with that score; no title left
\* out has a higher impact than an entry kept.
C36_TopVulnerabilities ==
    C36_Summarised =>
        LET top == result[1].summary.topVulnerabilities
            kept == {top[e].title : e \in DOMAIN top}
        IN  /\ Len(top) <= 10
            /\ \A a, b \in DOMAIN top : top[a].title = top[b].title => a = b
            /\ \A a, b \in DOMAIN top : a < b => top[a].impact >= top[b].impact
            /\ \A e \in DOMAIN top :
                /\ top[e].title \in C36_Titles
                /\ top[e].impact = C36_Best(top[e].title)
                /\ \E k \in DOMAIN input :
                    /\ input[k].title = top[e].title
                    /\ input[k].impactScore = top[e].impact
                    /\ input[k].risk = top[e].risk
                    /\ input[k].effort = top[e].effort
            /\ \A title \in C36_Titles \ kept :
                \A e \in DOMAIN top : C36_Best(title) <= top[e].impact

\* More than 10 titles, of which 10 are kept, and a title that has issues
\* of two impact scores.
C36_Witness ==
    /\ C36_Summarised
    /\ Cardinality(C36_Titles) > 10
    /\ Len(result[1].summary.topVulnerabilities) = 10
    /\ \E a, b \in DOMAIN input :
        /\ input[a].title = input[b].title
        /\ input[a].impactScore < input[b].impactScore
        /\ \E e \in 1..10 : result[1].summary.topVulnerabilities[e].title = input[a].title

\* ---------------------------------------------------------------- C37
C37_Critical == <<"Address High-Risk Vulnerabilities Immediately">>
C37_Review == <<"Implement Comprehensive Security Review">>
C37_Headers == <<"Implement Security Headers">>

C37_Count(condition) == IF condition THEN 1 ELSE 0

\* C37: the list of generateSecurityRecommendations is, in this order: the
\* Critical recommendation iff riskDistribution.high > 0; the
\* comprehensive-review recommendation iff overallSecurityScore < 60; one
\* recommendation for each of the first 3 top vulnerabilities, of priority
\* Critical for risk High, High for risk Medium and Medium otherwise; the
\* security-headers recommendation iff low + informational > 10; and it
\* has at most 10 entries.
C37_RecommendationsInOrder ==
    pc = "recommended" =>
        LET summary == result[1].summary
            recs == result[1].recommendations
            dist == summary.riskDistribution
            top == summary.topVulnerabilities
            critical == C37_Count(dist.high > 0)
            review == C37_Count(summary.overallSecurityScore < 60)
            fixes == Min(3, Len(top))
            headers == C37_Count(dist.low + dist.informational > 10)
            titled(title) == {k \in DOMAIN recs : recs[k].title = title}
        IN  /\ Len(recs) = critical + review + fixes + headers
            /\ Len(recs) <= 10
            /\ titled(C37_Critical) = 1..critical
            /\ \A k \in titled(C37_Critical) : recs[k].priority = "Critical"
            /\ titled(C37_Review) = (critical + 1)..(critical + review)
            /\ \A k \in 1..fixes :
                LET rec == recs[critical + review + k]
                IN  /\ rec.title = <<"Fix", top[k].title>>
                    /\ rec.priority = IF top[k].risk = "High" THEN "Critical"
                                      ELSE IF top[k].risk = "Medium" THEN "High"
                                      ELSE "Medium"
            /\ titled(C37_Headers) = (critical + review + fixes + 1)..Len(recs)

\* All four kinds of recommendation are in the list.
C37_Witness ==
    /\ pc = "recommended"
    /\ Len(result[1].recommendations) = 6
    /\ result[1].summary.riskDistribution.high > 0
    /\ result[1].summary.overallSecurityScore < 60
    /\ result[1].summary.riskDistribution.low
           + result[1].summary.riskDistribution.informational > 10

\* ---------------------------------------------------------------- C38
\* C38: in endpoint-only mode no endpoint is accessed or active-scanned more
\* than once in a run, and when the batch has been processed each has been
\* accessed once and, unless the scan is passive-only, scanned once.
C38_EndpointsScannedOnce ==
    C32_EndpointOnly =>
        \A e \in C32_Endpoints :
            /\ accessCount[e] <= 1
            /\ activeCount[e] <= 1
            /\ (pc = "done" /\ scanResults # <<>>) =>
                   /\ accessCount[e] = 1
                   /\ ~input.passiveScanOnly => activeCount[e] = 1
\* ---------------------------------------------------------------- C39
\* The steps of shutdown() after its graceful request.
C39_Signalling == pc \in {"grace", "termWait"} /\ pc' # pc

\* C39: shutdown() sends the graceful shutdown request to the engine that
\* listens, whether the client spawned it or found it running, and sends
\* kill signals only to the process the client itself spawned: the engine
\* it found running is never signalled.
C39_GracefulForAllKillForOwn ==
    /\ [][(pc = "loop" /\ pc' # "loop" /\ i >= Len(batches))
            => /\ shutdownCalls' = shutdownCalls + 1
               /\ pc' = "grace" <=> isZAPRunning]_vars
    /\ [][\A p \in 1..Len(procs) :
            (procs'[p].killed /\ ~procs[p].killed)
                => (C39_Signalling /\ zapProcess # 0 /\ p = zapProcess)]_vars
    /\ [][C39_Signalling => extUp' = extUp]_vars
    /\ [](zapProcess = 0 => pc # "termWait")

\* The graceful request has reached an engine the client did not spawn, and
\* shutdown() has returned without a signal.
C39_Witness ==
    /\ pc = "shutdownDone"
    /\ shutdownCalls = 1
    /\ zapProcess = 0
    /\ procs = <<>>
    /\ extUp
\* ---------------------------------------------------------------- C40
\* C40: summary.criticalFindings is not empty when riskDistribution.high
\* is above 0, and has the title of every issue of risk High.
C40_HighRiskIsCritical ==
    C36_Summarised =>
        LET summary == result[1].summary
            critical == {summary.criticalFindings[c].title :
                            c \in DOMAIN summary.criticalFindings}
        IN  /\ summary.riskDistribution.high > 0 => summary.criticalFindings # <<>>
            /\ \A k \in DOMAIN input :
                input[k].risk = "High" => input[k].title \in critical

====
